---- MODULE Spec2Model ----
(***************************************************************************)
(* CHIP-8 interpreter core, timing runner and debugger executor of         *)
(* chip8-rust, as a state machine.                                         *)
(*                                                                         *)
(* Representation choices:                                                 *)
(*  - memory is the 4096-byte array, stored sparsely: the function maps    *)
(*    exactly the addresses that hold a non-zero byte (Chip8::new fills    *)
(*    the array with zeros);                                               *)
(*  - display is the set of <<y, x>> whose pixel is true;                  *)
(*  - pc and i are u16 (emu/chip8.rs:19,21), arithmetic on them wraps at   *)
(*    2^16 as u16::wrapping_add does;                                      *)
(*  - Option<u8> None is the value None below;                             *)
(*  - an f32 time is a whole number of units of 2^-33 second and every     *)
(*    sum, difference and product is rounded to the 24 significant bits    *)
(*    of an f32, to nearest, ties to even (RoundF32); the time steps and   *)
(*    the frame times used are f32 values that are whole numbers of units, *)
(*    and so is every value computed from them;                            *)
(*  - events records what the last operation did, one entry per timer      *)
(*    tick and per CPU cycle, and ret what it returned.                    *)
(***************************************************************************)
EXTENDS Integers, Sequences, FiniteSets, TLC

\* ------------------------------------------------------------------------
\* Program constants
\* ------------------------------------------------------------------------
MEMORY_SIZE == 4096
ROM_START_ADDRESS == 512
FONT_START_ADDRESS == 80
DISPLAY_X == 64
DISPLAY_Y == 32
CPU_HZ == 700
TIMER_HZ == 60
U16 == 65536
U8 == 256
None == -1

\* f32::MANTISSA_DIGITS
F32_MANTISSA_DIGITS == 24

\* 1.0 / CPU_HZ as an f32: 12271335 * 2^-33 = 0.00142857141327...
\* (2^33 / 700 = 12271335.3..., below 2^24, so the nearest f32 is exact to the unit)
CPU_TIME_STEP == 12271335

\* 1.0 / TIMER_HZ as an f32: 8947849 * 2^-29 = 0.0166666675359...
\* (2^33 / 60 = 143165576.5..., between 2^27 and 2^28, so f32 values there
\* are 16 units apart and the nearest is 143165584)
TIMER_TIME_STEP == 143165584

\* ------------------------------------------------------------------------
\* Integer helpers (u8 / u16 arithmetic)
\* ------------------------------------------------------------------------
Min(a, b) == IF a <= b THEN a ELSE b

Bit(value, k) == (value \div (2 ^ k)) % 2

BitAnd(a, b) ==
    LET t(k) == (2 ^ k) * (Bit(a, k) * Bit(b, k))
    IN t(0) + t(1) + t(2) + t(3) + t(4) + t(5) + t(6) + t(7)

BitOr(a, b) ==
    LET t(k) == (2 ^ k) * (IF Bit(a, k) + Bit(b, k) > 0 THEN 1 ELSE 0)
    IN t(0) + t(1) + t(2) + t(3) + t(4) + t(5) + t(6) + t(7)

BitXor(a, b) ==
    LET t(k) == (2 ^ k) * ((Bit(a, k) + Bit(b, k)) % 2)
    IN t(0) + t(1) + t(2) + t(3) + t(4) + t(5) + t(6) + t(7)

\* u16::wrapping_add / u16::wrapping_sub
wrapping_add(a, rhs) == (a + rhs) % U16

wrapping_sub(a, rhs) == (a + U16 - rhs) % U16

\* u8::wrapping_add
wrapping_add8(a, rhs) == (a + rhs) % U8

\* u8::saturating_sub
saturating_sub(a, rhs) == IF a >= rhs THEN a - rhs ELSE 0

\* ------------------------------------------------------------------------
\* Results
\* ------------------------------------------------------------------------
Ok(value) == [ok |-> TRUE, val |-> value]

\* A value of an enum without fields, or the unit value
Val(kind) == [kind |-> kind]

Err(error) == [ok |-> FALSE, err |-> error]

MemoryOutOfBounds(addr) == [kind |-> "MemoryOutOfBounds", address |-> addr]

StackUnderflow == [kind |-> "StackUnderflow"]

UnknownOpcode(word) == [kind |-> "UnknownOpcode", opcode |-> word]

UnknownALUOpcode(word) == [kind |-> "UnknownALUOpcode", opcode |-> word]

RomLoadError(len, max) == [kind |-> "RomLoadError", size |-> len, max_size |-> max]

\* ------------------------------------------------------------------------
\* f32 arithmetic on times (units of 2^-33 second)
\* ------------------------------------------------------------------------
RECURSIVE Ulp(_)
\* The distance between neighbouring f32 values at the size of value
Ulp(value) ==
    IF value < 2 ^ F32_MANTISSA_DIGITS THEN 1 ELSE 2 * Ulp(value \div 2)

\* value rounded down or up to a multiple of ulp: to the nearer one, and
\* half way between the two to the one with an even significand
RoundTo(value, ulp) ==
    IF 2 * (value % ulp) < ulp THEN value - (value % ulp)
    ELSE IF 2 * (value % ulp) > ulp THEN value - (value % ulp) + ulp
    ELSE IF (value \div ulp) % 2 = 0 THEN value - (value % ulp)
    ELSE value - (value % ulp) + ulp

\* The f32 nearest to an exact value
RoundF32(value) == RoundTo(value, Ulp(value))

\* a + b, a - b on f32 (a >= b wherever the runner subtracts)
f32_add(a, b) == RoundF32(a + b)

f32_sub(a, b) == RoundF32(a - b)

\* count as f32 * step, for a small whole count
f32_mul(count, step) == RoundF32(count * step)

\* ------------------------------------------------------------------------
\* Memory
\* ------------------------------------------------------------------------
\* memory.get_mut(addr) is Some exactly for addr < MEMORY_SIZE
InBounds(addr) == addr < MEMORY_SIZE

MemRead(mem, addr) == IF addr \in DOMAIN mem THEN mem[addr] ELSE 0

MemWrite(mem, addr, byte) ==
    IF byte = 0
    THEN [a \in (DOMAIN mem) \ {addr} |-> mem[a]]
    ELSE [a \in (DOMAIN mem) \cup {addr} |-> IF a = addr THEN byte ELSE mem[a]]

\* The 16 glyphs of 5 bytes each
FONT ==
    << 240, 144, 144, 144, 240,    32,  96,  32,  32, 112,
       240,  16, 240, 128, 240,   240,  16, 240,  16, 240,
       144, 144, 240,  16,  16,   240, 128, 240,  16, 240,
       240, 128, 240, 144, 240,   240,  16,  32,  64,  64,
       240, 144, 240, 144, 240,   240, 144, 240,  16, 240,
       240, 144, 240, 144, 144,   224, 144, 224, 144, 224,
       240, 128, 128, 128, 240,   224, 144, 144, 144, 224,
       240, 128, 240, 128, 240,   240, 128, 240, 128, 128 >>

FONT_END_ADDRESS == FONT_START_ADDRESS + Len(FONT)

\* memory[start .. start + Len(bytes)).copy_from_slice(bytes)
CopyFromSlice(mem, start, bytes) ==
    LET range == start .. (start + Len(bytes) - 1)
        keep  == {a \in (DOMAIN mem) \ range : TRUE}
        put   == {a \in range : bytes[a - start + 1] # 0}
    IN [a \in keep \cup put |-> IF a \in range THEN bytes[a - start + 1] ELSE mem[a]]

\* ------------------------------------------------------------------------
\* Opcode decoder (Opcode::decode)
\* ------------------------------------------------------------------------
DecodeALU_without_shift_left(n3) ==
    CASE n3 = 0  -> "Set"
      [] n3 = 1  -> "Or"
      [] n3 = 2  -> "And"
      [] n3 = 3  -> "Xor"
      [] n3 = 4  -> "Add"
      [] n3 = 5  -> "Sub"
      [] n3 = 6  -> "ShiftRight"
      [] n3 = 7  -> "SubReverse"
      [] OTHER   -> "Invalid"

DecodeALU(n3) ==
    CASE n3 = 0  -> "Set"
      [] n3 = 1  -> "Or"
      [] n3 = 2  -> "And"
      [] n3 = 3  -> "Xor"
      [] n3 = 4  -> "Add"
      [] n3 = 5  -> "Sub"
      [] n3 = 6  -> "ShiftRight"
      [] n3 = 7  -> "SubReverse"
      [] n3 = 14 -> "ShiftLeft"
      [] OTHER   -> "Invalid"

Decode(opcode) ==
    LET n0  == (opcode \div 4096) % 16
        n1  == (opcode \div 256) % 16
        n2  == (opcode \div 16) % 16
        n3  == opcode % 16
        x   == n1
        y   == n2
        n   == n3
        nn  == opcode % 256
        nnn == opcode % 4096
    IN CASE n0 = 0 /\ n1 = 0 /\ n2 = 14 /\ n3 = 0  -> [op |-> "ClearDisplay"]
         [] n0 = 0 /\ n1 = 0 /\ n2 = 14 /\ n3 = 14 -> [op |-> "Return"]
         [] n0 = 1  -> [op |-> "Jump", nnn |-> nnn]
         [] n0 = 2  -> [op |-> "Call", nnn |-> nnn]
         [] n0 = 3  -> [op |-> "SkipRegEqualImm", x |-> x, nn |-> nn]
         [] n0 = 4  -> [op |-> "SkipRegNotEqualImm", x |-> x, nn |-> nn]
         [] n0 = 5 /\ n3 = 0 -> [op |-> "SkipRegEqualReg", x |-> x, y |-> y]
         [] n0 = 6  -> [op |-> "SetRegImm", x |-> x, nn |-> nn]
         [] n0 = 7  -> [op |-> "AddRegImm", x |-> x, nn |-> nn]
         [] n0 = 8  -> IF DecodeALU(n3) = "Invalid"
                       THEN [op |-> "UnknownALU", raw |-> opcode]
                       ELSE [op |-> "ALU", x |-> x, y |-> y, alu |-> DecodeALU(n3)]
         [] n0 = 9 /\ n3 = 0 -> [op |-> "SkipRegNotEqualReg", x |-> x, y |-> y]
         [] n0 = 10 -> [op |-> "SetIndexImm", nnn |-> nnn]
         [] n0 = 11 -> [op |-> "JumpWithOffset", nnn |-> nnn]
         [] n0 = 12 -> [op |-> "Random", x |-> x, nn |-> nn]
         [] n0 = 13 -> [op |-> "Draw", x |-> x, y |-> y, n |-> n]
         [] n0 = 14 /\ n2 = 9 /\ n3 = 14  -> [op |-> "SkipIfPressed", x |-> x]
         [] n0 = 14 /\ n2 = 10 /\ n3 = 1  -> [op |-> "SkipIfNotPressed", x |-> x]
         [] n0 = 15 /\ n2 = 0 /\ n3 = 10  -> [op |-> "WaitForKey", x |-> x]
         [] n0 = 15 /\ n2 = 0 /\ n3 = 7   -> [op |-> "ReadDelayTimer", x |-> x]
         [] n0 = 15 /\ n2 = 1 /\ n3 = 5   -> [op |-> "SetDelayTimer", x |-> x]
         [] n0 = 15 /\ n2 = 1 /\ n3 = 8   -> [op |-> "SetSoundTimer", x |-> x]
         [] n0 = 15 /\ n2 = 1 /\ n3 = 14  -> [op |-> "AddIndexReg", x |-> x]
         [] n0 = 15 /\ n2 = 2 /\ n3 = 9   -> [op |-> "FontChar", x |-> x]
         [] n0 = 15 /\ n2 = 3 /\ n3 = 3   -> [op |-> "BCD", x |-> x]
         [] n0 = 15 /\ n2 = 5 /\ n3 = 5   -> [op |-> "StoreRegs", x |-> x]
         [] n0 = 15 /\ n2 = 6 /\ n3 = 5   -> [op |-> "LoadRegs", x |-> x]
         [] OTHER -> [op |-> "Unknown", raw |-> opcode]

\* ------------------------------------------------------------------------
\* Machine state (struct Chip8)
\* ------------------------------------------------------------------------
Chip8New ==
    [ memory           |-> [a \in {} |-> 0],
      display          |-> {},
      pc               |-> ROM_START_ADDRESS,
      i                |-> 0,
      v                |-> [r \in 0..15 |-> 0],
      stack            |-> << >>,
      delay_timer      |-> 0,
      sound_timer      |-> 0,
      wait_release_key |-> None,
      keypad           |-> [k \in 0..15 |-> FALSE] ]

\* load copying all of the ROM but its last byte
load_drops_last_byte(c, rom) ==
    LET withFont == [c EXCEPT !.memory =
                        CopyFromSlice(c.memory, FONT_START_ADDRESS, FONT)]
        rom_end  == ROM_START_ADDRESS + Len(rom)
    IN IF rom_end > MEMORY_SIZE
       THEN [chip |-> withFont,
             res  |-> Err(RomLoadError(Len(rom), MEMORY_SIZE - ROM_START_ADDRESS))]
       ELSE [chip |-> [withFont EXCEPT
                          !.memory = CopyFromSlice(withFont.memory, ROM_START_ADDRESS,
                                                   SubSeq(rom, 1, Len(rom) - 1)),
                          !.pc = ROM_START_ADDRESS],
             res  |-> Ok(Val("Unit"))]

\* load refusing a ROM that ends exactly at the end of memory
load_rejects_full(c, rom) ==
    LET withFont == [c EXCEPT !.memory =
                        CopyFromSlice(c.memory, FONT_START_ADDRESS, FONT)]
        rom_end  == ROM_START_ADDRESS + Len(rom)
    IN IF rom_end >= MEMORY_SIZE
       THEN [chip |-> withFont,
             res  |-> Err(RomLoadError(Len(rom), MEMORY_SIZE - ROM_START_ADDRESS))]
       ELSE [chip |-> [withFont EXCEPT
                          !.memory = CopyFromSlice(withFont.memory, ROM_START_ADDRESS, rom),
                          !.pc = ROM_START_ADDRESS],
             res  |-> Ok(Val("Unit"))]

\* Chip8::load: the font is copied first, then the ROM if it fits
load(c, rom) ==
    LET withFont == [c EXCEPT !.memory =
                        CopyFromSlice(c.memory, FONT_START_ADDRESS, FONT)]
        rom_end  == ROM_START_ADDRESS + Len(rom)
    IN IF rom_end > MEMORY_SIZE
       THEN [chip |-> withFont,
             res  |-> Err(RomLoadError(Len(rom), MEMORY_SIZE - ROM_START_ADDRESS))]
       ELSE [chip |-> [withFont EXCEPT
                          !.memory = CopyFromSlice(withFont.memory, ROM_START_ADDRESS, rom),
                          !.pc = ROM_START_ADDRESS],
             res  |-> Ok(Val("Unit"))]

\* A variant of timers_cycle whose subtraction wraps around below zero
timers_cycle_wrapping(c) ==
    [c EXCEPT !.delay_timer = (c.delay_timer + U8 - 1) % U8,
              !.sound_timer = (c.sound_timer + U8 - 1) % U8]

\* Chip8::timers_cycle
timers_cycle(c) ==
    [c EXCEPT !.delay_timer = saturating_sub(c.delay_timer, 1),
              !.sound_timer = saturating_sub(c.sound_timer, 1)]

\* Chip8::set_key
set_key(c, key, pressed) == [c EXCEPT !.keypad[key] = pressed]

\* Chip8::fetch
fetch(c) ==
    IF ~InBounds(c.pc) THEN Err(MemoryOutOfBounds(c.pc))
    ELSE IF ~InBounds(wrapping_add(c.pc, 1))
         THEN Err(MemoryOutOfBounds(wrapping_add(c.pc, 1)))
         ELSE Ok(MemRead(c.memory, c.pc) * 256
                 + MemRead(c.memory, wrapping_add(c.pc, 1)))

\* ------------------------------------------------------------------------
\* Execution engine (execute.rs)
\* ------------------------------------------------------------------------
Continue == "Continue"

WaitForNextFrame == "WaitForNextFrame"

Outcome(c, r) == [chip |-> c, res |-> r]

WithV(c, x, value) == [c EXCEPT !.v[x] = value]

\* A variant of WriteResult that writes VF first and Vx second
WriteResultFlagFirst(c, x, value, flag) ==
    [[c EXCEPT !.v[15] = flag] EXCEPT !.v[x] = value]

\* self.v[x] = value; self.v[0xF] = flag: Vx is written first, VF second
WriteResult(c, x, value, flag) ==
    [[c EXCEPT !.v[x] = value] EXCEPT !.v[15] = flag]

\* A variant of WriteLogic that leaves VF as it was
WriteLogicKeepingFlag(c, x, value) == [c EXCEPT !.v[x] = value]

\* self.v[x] |= / &= / ^= self.v[y]; self.v[0xF] = 0
WriteLogic(c, x, value) == WriteResult(c, x, value, 0)

\* A variant of ShiftOperand that shifts the old value of Vx
ShiftOperandVx(vx, vy) == vx

\* The value the shifts work on: self.v[y]
ShiftOperand(vx, vy) == vy

\* Chip8::execute_alu
execute_alu(c, x, y, op) ==
    LET vx == c.v[x]
        vy == c.v[y]
        sh == ShiftOperand(c.v[x], c.v[y])
    IN CASE op = "Set" -> WithV(c, x, vy)
         [] op = "Or"  -> WriteLogic(c, x, BitOr(vx, vy))
         [] op = "And" -> WriteLogic(c, x, BitAnd(vx, vy))
         [] op = "Xor" -> WriteLogic(c, x, BitXor(vx, vy))
         [] op = "Add" ->
                WriteResult(c, x, (vx + vy) % U8, IF vx + vy >= U8 THEN 1 ELSE 0)
         [] op = "Sub" ->
                WriteResult(c, x, (vx + U8 - vy) % U8, IF vx < vy THEN 0 ELSE 1)
         [] op = "SubReverse" ->
                WriteResult(c, x, (vy + U8 - vx) % U8, IF vy < vx THEN 0 ELSE 1)
         [] op = "ShiftRight" -> WriteResult(c, x, sh \div 2, sh % 2)
         [] op = "ShiftLeft"  -> WriteResult(c, x, (sh * 2) % U8, Bit(sh, 7))

\* The rows of Chip8::execute_draw, from `row` on; a row whose sprite byte
\* lies out of bounds ends the draw with the rows before it already drawn
RECURSIVE DrawRows(_, _, _, _, _, _, _)
DrawRows(c, row, row_count, col_count, x_pos, y_pos, any_erased) ==
    IF row >= row_count
    THEN Outcome([c EXCEPT !.v[15] = IF any_erased THEN 1 ELSE 0], Ok(WaitForNextFrame))
    ELSE LET addr == wrapping_add(c.i, row)
         IN IF ~InBounds(addr)
            THEN Outcome(c, Err(MemoryOutOfBounds(addr)))
            ELSE LET sprite_byte == MemRead(c.memory, addr)
                     flipped == {<<y_pos + row, x_pos + col>> :
                                   col \in {k \in 0..(col_count - 1) :
                                              Bit(sprite_byte, 7 - k) = 1}}
                     erased  == flipped \cap c.display
                     shown   == (c.display \ flipped) \cup (flipped \ c.display)
                 IN DrawRows([c EXCEPT !.display = shown], row + 1, row_count,
                             col_count, x_pos, y_pos, any_erased \/ erased # {})

\* A variant of execute_draw that wraps a sprite around the right and bottom
\* edges instead of cutting it off
execute_draw_wrapping(c, x, y, n) ==
    LET x_pos == c.v[x] % DISPLAY_X
        y_pos == c.v[y] % DISPLAY_Y
        drawn == [row \in 0..(n - 1) |->
                    {<<(y_pos + row) % DISPLAY_Y, (x_pos + col) % DISPLAY_X>> :
                       col \in {k \in 0..7 :
                                  Bit(MemRead(c.memory, wrapping_add(c.i, row)), 7 - k) = 1}}]
        flipped == UNION {drawn[row] : row \in 0..(n - 1)}
    IN Outcome([c EXCEPT !.display = (c.display \ flipped) \cup (flipped \ c.display),
                         !.v[15] = IF flipped \cap c.display # {} THEN 1 ELSE 0],
               Ok(WaitForNextFrame))

\* A variant of execute_draw that ends the frame only when it has drawn rows
execute_draw_continues_when_empty(c, x, y, n) ==
    IF n = 0
    THEN Outcome([c EXCEPT !.v[15] = 0], Ok(Continue))
    ELSE DrawRows(c, 0, Min(n, DISPLAY_Y - (c.v[y] % DISPLAY_Y)),
                  Min(8, DISPLAY_X - (c.v[x] % DISPLAY_X)),
                  c.v[x] % DISPLAY_X, c.v[y] % DISPLAY_Y, FALSE)

\* The outcome o of a draw from c with the pixels of c kept lit
KeepingLit(c, o) == Outcome([o.chip EXCEPT !.display = o.chip.display \cup c.display], o.res)

\* A variant of execute_draw that only ever turns pixels on
execute_draw_overlaying(c, x, y, n) ==
    KeepingLit(c, DrawRows(c, 0, Min(n, DISPLAY_Y - (c.v[y] % DISPLAY_Y)),
                           Min(8, DISPLAY_X - (c.v[x] % DISPLAY_X)),
                           c.v[x] % DISPLAY_X, c.v[y] % DISPLAY_Y, FALSE))

\* The outcome o of a draw from c with VF raised whenever a pixel was flipped
FlagOnAnyFlip(c, o) ==
    IF o.res.ok
    THEN Outcome([o.chip EXCEPT !.v[15] = IF o.chip.display # c.display THEN 1 ELSE 0],
                 o.res)
    ELSE o

\* A variant of execute_draw that reports every drawn pixel as a collision
execute_draw_flags_any_flip(c, x, y, n) ==
    FlagOnAnyFlip(c, DrawRows(c, 0, Min(n, DISPLAY_Y - (c.v[y] % DISPLAY_Y)),
                              Min(8, DISPLAY_X - (c.v[x] % DISPLAY_X)),
                              c.v[x] % DISPLAY_X, c.v[y] % DISPLAY_Y, FALSE))

execute_draw(c, x, y, n) ==
    LET x_pos == c.v[x] % DISPLAY_X
        y_pos == c.v[y] % DISPLAY_Y
        row_count == Min(n, DISPLAY_Y - y_pos)
        col_count == Min(8, DISPLAY_X - x_pos)
    IN DrawRows(c, 0, row_count, col_count, x_pos, y_pos, FALSE)

\* A variant of FirstPressed that scans the keys from 15 down to 0
LastPressed(keypad) ==
    IF \E k \in 0..15 : keypad[k]
    THEN CHOOSE k \in 0..15 : keypad[k] /\ \A j \in (k + 1)..15 : ~keypad[j]
    ELSE None

\* The key scan of execute_wait_for_key: the first pressed key of 0..15
FirstPressed(keypad) ==
    IF \E k \in 0..15 : keypad[k]
    THEN CHOOSE k \in 0..15 : keypad[k] /\ \A j \in 0..(k - 1) : ~keypad[j]
    ELSE None

\* A variant of execute_wait_for_key that completes as soon as a key is
\* seen pressed, without waiting for its release
execute_wait_for_key_on_press(c, x) ==
    IF FirstPressed(c.keypad) # None
    THEN Outcome([c EXCEPT !.v[x] = FirstPressed(c.keypad),
                        !.wait_release_key = None], Continue)
    ELSE Outcome([c EXCEPT !.pc = wrapping_sub(c.pc, 2)], WaitForNextFrame)

\* A variant of execute_wait_for_key that does not rewind the program counter
execute_wait_for_key_no_rewind(c, x) ==
    IF c.wait_release_key # None /\ ~c.keypad[c.wait_release_key]
    THEN Outcome([c EXCEPT !.v[x] = c.wait_release_key,
                        !.wait_release_key = None], Continue)
    ELSE LET armed == IF c.wait_release_key = None
                      THEN [c EXCEPT !.wait_release_key = FirstPressed(c.keypad)]
                      ELSE c
         IN Outcome(armed, WaitForNextFrame)

\* A variant of execute_wait_for_key that completes only once every key is
\* released
execute_wait_for_key_all_released(c, x) ==
    IF c.wait_release_key # None /\ FirstPressed(c.keypad) = None
    THEN Outcome([c EXCEPT !.v[x] = c.wait_release_key,
                        !.wait_release_key = None], Continue)
    ELSE LET armed == IF c.wait_release_key = None
                      THEN [c EXCEPT !.wait_release_key = FirstPressed(c.keypad)]
                      ELSE c
         IN Outcome([armed EXCEPT !.pc = wrapping_sub(armed.pc, 2)], WaitForNextFrame)

\* Chip8::execute_wait_for_key; c.pc is already advanced by 2
execute_wait_for_key(c, x) ==
    IF c.wait_release_key # None /\ ~c.keypad[c.wait_release_key]
    THEN Outcome([c EXCEPT !.v[x] = c.wait_release_key,
                        !.wait_release_key = None], Continue)
    ELSE LET armed == IF c.wait_release_key = None
                      THEN [c EXCEPT !.wait_release_key = FirstPressed(c.keypad)]
                      ELSE c
         IN Outcome([armed EXCEPT !.pc = wrapping_sub(armed.pc, 2)], WaitForNextFrame)

\* Opcode::BCD: three bounds-checked writes in order
execute_bcd(c, x) ==
    LET value == c.v[x]
        a0 == c.i
        a1 == wrapping_add(c.i, 1)
        a2 == wrapping_add(c.i, 2)
        m1 == MemWrite(c.memory, a0, value \div 100)
        m2 == MemWrite(m1, a1, (value \div 10) % 10)
        m3 == MemWrite(m2, a2, value % 10)
    IN IF ~InBounds(a0) THEN Outcome(c, Err(MemoryOutOfBounds(a0)))
       ELSE IF ~InBounds(a1)
            THEN Outcome([c EXCEPT !.memory = m1], Err(MemoryOutOfBounds(a1)))
       ELSE IF ~InBounds(a2)
            THEN Outcome([c EXCEPT !.memory = m2], Err(MemoryOutOfBounds(a2)))
       ELSE Outcome([c EXCEPT !.memory = m3], Ok(Continue))

\* A variant of StoreRegsLoop that stops before Vx: for reg_index in 0..x
RECURSIVE StoreRegsExclusive(_, _, _)
StoreRegsExclusive(c, reg_index, x) ==
    IF reg_index >= x THEN Outcome(c, Ok(Continue))
    ELSE IF ~InBounds(c.i) THEN Outcome(c, Err(MemoryOutOfBounds(c.i)))
    ELSE StoreRegsExclusive([c EXCEPT !.memory = MemWrite(c.memory, c.i, c.v[reg_index]),
                                      !.i = wrapping_add(c.i, 1)],
                            reg_index + 1, x)

\* Opcode::StoreRegs: for reg_index in 0..=x
RECURSIVE StoreRegsLoop(_, _, _)
StoreRegsLoop(c, reg_index, x) ==
    IF reg_index > x THEN Outcome(c, Ok(Continue))
    ELSE IF ~InBounds(c.i) THEN Outcome(c, Err(MemoryOutOfBounds(c.i)))
    ELSE StoreRegsLoop([c EXCEPT !.memory = MemWrite(c.memory, c.i, c.v[reg_index]),
                                 !.i = wrapping_add(c.i, 1)],
                       reg_index + 1, x)

\* Opcode::LoadRegs: for reg_index in 0..=x
RECURSIVE LoadRegsLoop(_, _, _)
LoadRegsLoop(c, reg_index, x) ==
    IF reg_index > x THEN Outcome(c, Ok(Continue))
    ELSE IF ~InBounds(c.i) THEN Outcome(c, Err(MemoryOutOfBounds(c.i)))
    ELSE LoadRegsLoop([c EXCEPT !.v[reg_index] = MemRead(c.memory, c.i),
                                !.i = wrapping_add(c.i, 1)],
                      reg_index + 1, x)

\* A variant of execute_unknown that skips the word and carries on
execute_unknown_skips(c, raw) == Outcome(c, Ok(Continue))

\* Opcode::Unknown(opcode) => return Err(Chip8Error::UnknownOpcode { opcode })
execute_unknown(c, raw) == Outcome(c, Err(UnknownOpcode(raw)))

\* The arm of the match for Opcode::UnknownALU
execute_unknown_alu(c, raw) == Outcome(c, Err(UnknownALUOpcode(raw)))

\* self.pc = self.pc.wrapping_add(2), the first statement of Chip8::execute
AdvancePc(c) == [c EXCEPT !.pc = wrapping_add(c.pc, 2)]

\* A variant of SkipIf that skips whatever the condition is
SkipIfAlways(c, cond) == AdvancePc(c)

\* if cond { self.pc = self.pc.wrapping_add(2) }
SkipIf(c, cond) == IF cond THEN AdvancePc(c) ELSE c

\* A variant of execute_return that carries on when the stack is empty
execute_return_ignoring_empty(c) ==
    IF c.stack = << >>
    THEN Outcome(c, Ok(Continue))
    ELSE Outcome([c EXCEPT !.pc = c.stack[Len(c.stack)],
                           !.stack = SubSeq(c.stack, 1, Len(c.stack) - 1)],
                 Ok(Continue))

\* Opcode::Return: self.pc = self.stack.pop().ok_or(StackUnderflow)?
\* c.pc is already advanced by 2
execute_return(c) ==
    IF c.stack = << >>
    THEN Outcome(c, Err(StackUnderflow))
    ELSE Outcome([c EXCEPT !.pc = c.stack[Len(c.stack)],
                           !.stack = SubSeq(c.stack, 1, Len(c.stack) - 1)],
                 Ok(Continue))

\* A variant of execute_jump that leaves the program counter alone
execute_jump_ignored(c, nnn) == Outcome(c, Ok(Continue))

\* Opcode::Jump: self.pc = nnn
execute_jump(c, nnn) == Outcome([c EXCEPT !.pc = nnn], Ok(Continue))

\* A variant of execute_call that pushes the address of the call itself
execute_call_pushes_own_address(c, nnn) ==
    Outcome([c EXCEPT !.stack = Append(c.stack, wrapping_sub(c.pc, 2)), !.pc = nnn],
            Ok(Continue))

\* Opcode::Call: self.stack.push(self.pc); self.pc = nnn
\* c.pc is already advanced by 2
execute_call(c, nnn) ==
    Outcome([c EXCEPT !.stack = Append(c.stack, c.pc), !.pc = nnn], Ok(Continue))

\* Chip8::execute; rand_byte is the value rand::random() returns
execute(c0, o, rand_byte) ==
    LET c == AdvancePc(c0)
        Cont(c1) == Outcome(c1, Ok(Continue))
    IN CASE o.op = "ClearDisplay" -> Cont([c EXCEPT !.display = {}])
         [] o.op = "Jump" -> execute_jump(c, o.nnn)
         [] o.op = "JumpWithOffset" ->
                Cont([c EXCEPT !.pc = wrapping_add(o.nnn, c.v[0])])
         [] o.op = "Call" -> execute_call(c, o.nnn)
         [] o.op = "Return" -> execute_return(c)
         [] o.op = "SkipRegEqualImm" -> Cont(SkipIf(c, c.v[o.x] = o.nn))
         [] o.op = "SkipRegNotEqualImm" -> Cont(SkipIf(c, c.v[o.x] # o.nn))
         [] o.op = "SkipRegEqualReg" -> Cont(SkipIf(c, c.v[o.x] = c.v[o.y]))
         [] o.op = "SkipRegNotEqualReg" -> Cont(SkipIf(c, c.v[o.x] # c.v[o.y]))
         [] o.op = "SetRegImm" -> Cont(WithV(c, o.x, o.nn))
         [] o.op = "AddRegImm" -> Cont(WithV(c, o.x, wrapping_add8(c.v[o.x], o.nn)))
         [] o.op = "ALU" -> Cont(execute_alu(c, o.x, o.y, o.alu))
         [] o.op = "Random" -> Cont(WithV(c, o.x, BitAnd(rand_byte, o.nn)))
         [] o.op = "SetIndexImm" -> Cont([c EXCEPT !.i = o.nnn])
         [] o.op = "AddIndexReg" -> Cont([c EXCEPT !.i = wrapping_add(c.i, c.v[o.x])])
         [] o.op = "Draw" -> execute_draw(c, o.x, o.y, o.n)
         [] o.op = "SkipIfPressed" -> Cont(SkipIf(c, c.keypad[c.v[o.x] % 16]))
         [] o.op = "SkipIfNotPressed" -> Cont(SkipIf(c, ~c.keypad[c.v[o.x] % 16]))
         [] o.op = "WaitForKey" ->
                LET r == execute_wait_for_key(c, o.x) IN Outcome(r.chip, Ok(r.res))
         [] o.op = "ReadDelayTimer" -> Cont(WithV(c, o.x, c.delay_timer))
         [] o.op = "SetDelayTimer" -> Cont([c EXCEPT !.delay_timer = c.v[o.x]])
         [] o.op = "SetSoundTimer" -> Cont([c EXCEPT !.sound_timer = c.v[o.x]])
         [] o.op = "FontChar" ->
                Cont([c EXCEPT !.i = FONT_START_ADDRESS + (c.v[o.x] % 16) * 5])
         [] o.op = "BCD" -> execute_bcd(c, o.x)
         [] o.op = "StoreRegs" -> StoreRegsLoop(c, 0, o.x)
         [] o.op = "LoadRegs" -> LoadRegsLoop(c, 0, o.x)
         [] o.op = "Unknown" -> execute_unknown(c, o.raw)
         [] o.op = "UnknownALU" -> execute_unknown_alu(c, o.raw)

\* Chip8::cpu_cycle: fetch, decode, execute
cpu_cycle(c, rand_byte) ==
    LET opcode == fetch(c)
    IN IF ~opcode.ok
       THEN Outcome(c, Err(opcode.err))
       ELSE execute(c, Decode(opcode.val), rand_byte)

\* ------------------------------------------------------------------------
\* Timing runner (emu/runner.rs)
\* ------------------------------------------------------------------------
Event(kind, pre, post, res) == [kind |-> kind, pre |-> pre, post |-> post, res |-> res]

\* while self.timer_dt_accumulator >= TIMER_TIME_STEP
RECURSIVE TimerLoop(_, _, _)
TimerLoop(c, timer_acc, evs) ==
    IF timer_acc >= TIMER_TIME_STEP
    THEN TimerLoop(timers_cycle(c), f32_sub(timer_acc, TIMER_TIME_STEP),
                   Append(evs, Event("timer", c, timers_cycle(c), Ok("Tick"))))
    ELSE [chip |-> c, timer |-> timer_acc, events |-> evs]

NoBreakpoints == [some |-> FALSE]

SomeBreakpoints(set) == [some |-> TRUE, set |-> set]

\* A variant of BreakpointHit that never reports a hit
BreakpointHitNever(bps, c) == FALSE

\* if let Some(breakpoints) = &breakpoints && breakpoints.contains(&self.chip8.pc)
BreakpointHit(bps, c) == bps.some /\ c.pc \in bps.set

\* A variant of StopsFrame under which no result ends the frame
StopsFrameNever(cpu_result) == FALSE

\* match cpu_result { WaitForNextFrame => stop, Continue => {} }
StopsFrame(cpu_result) == cpu_result = WaitForNextFrame

RECURSIVE CpuLoop(_, _, _, _, _)
\* The body of the CPU loop after its cycle has run with outcome r: the
\* accumulator is already reduced to acc1; cpu_cycle()? returns on an error,
\* then the breakpoint check, then the match on the cycle's result
CpuLoopBody(r, acc1, bps, rand_byte, evs1) ==
    IF ~r.res.ok
    THEN [chip |-> r.chip, cpu |-> acc1, events |-> evs1, ret |-> Err(r.res.err)]
    ELSE IF BreakpointHit(bps, r.chip)
    THEN [chip |-> r.chip, cpu |-> 0, events |-> evs1, ret |-> Ok(Val("HitBreakpoint"))]
    ELSE IF StopsFrame(r.res.val)
    THEN [chip |-> r.chip, cpu |-> 0, events |-> evs1, ret |-> Ok(Val("Ok"))]
    ELSE CpuLoop(r.chip, acc1, bps, rand_byte, evs1)

\* One cycle of the CPU loop, recorded as an event of the call
CpuLoopCycle(c, r, acc1, bps, rand_byte, evs) ==
    CpuLoopBody(r, acc1, bps, rand_byte, Append(evs, Event("cpu", c, r.chip, r.res)))

\* A variant of CpuLoop that checks for a breakpoint before running the
\* cycle as well
CpuLoopChecksFirst(c, cpu_acc, bps, rand_byte, evs) ==
    IF cpu_acc < CPU_TIME_STEP
    THEN [chip |-> c, cpu |-> cpu_acc, events |-> evs, ret |-> Ok(Val("Ok"))]
    ELSE IF BreakpointHit(bps, c)
    THEN [chip |-> c, cpu |-> 0, events |-> evs, ret |-> Ok(Val("HitBreakpoint"))]
    ELSE CpuLoopCycle(c, cpu_cycle(c, rand_byte), f32_sub(cpu_acc, CPU_TIME_STEP),
                      bps, rand_byte, evs)

\* while self.cpu_dt_accumulator >= CPU_TIME_STEP
CpuLoop(c, cpu_acc, bps, rand_byte, evs) ==
    IF cpu_acc < CPU_TIME_STEP
    THEN [chip |-> c, cpu |-> cpu_acc, events |-> evs, ret |-> Ok(Val("Ok"))]
    ELSE CpuLoopCycle(c, cpu_cycle(c, rand_byte), f32_sub(cpu_acc, CPU_TIME_STEP),
                      bps, rand_byte, evs)

\* The result of an update: the CPU loop's outcome u and the timer
\* accumulator the timer loop left
UpdateResult(u, timer_acc) ==
    [chip |-> u.chip, cpu |-> u.cpu, timer |-> timer_acc,
     events |-> u.events, ret |-> u.ret]

\* The CPU loop, entered with the timer loop's outcome t
CpuPhase(t, cpu_acc, bps, rand_byte) ==
    UpdateResult(CpuLoop(t.chip, cpu_acc, bps, rand_byte, t.events), t.timer)

\* Chip8Runner::update_with_breakpoints
update_with_breakpoints(c, cpu_acc, timer_acc, dt, bps, rand_byte) ==
    CpuPhase(TimerLoop(c, f32_add(timer_acc, dt), << >>), f32_add(cpu_acc, dt),
             bps, rand_byte)

\* Chip8Runner::update
update(c, cpu_acc, timer_acc, dt, rand_byte) ==
    update_with_breakpoints(c, cpu_acc, timer_acc, dt, NoBreakpoints, rand_byte)

\* ------------------------------------------------------------------------
\* Debugger executor (debugger/executor.rs)
\* ------------------------------------------------------------------------
\* matches!(result, Err(_) | Ok(Chip8RunnerResult::HitBreakpoint))
PollStops(result) == ~result.ok \/ result.val.kind = "HitBreakpoint"

\* The executor and runner after a poll whose update returned r
PollResult(stays_running, r) ==
    [is_running |-> stays_running,
     chip |-> r.chip, cpu |-> r.cpu, timer |-> r.timer,
     events |-> r.events, ret |-> r.ret]

\* if matches!(..) { self.is_running = false }; result
PollRunning(running, r) ==
    PollResult(IF PollStops(r.ret) THEN FALSE ELSE running, r)

\* A variant of poll that stays Running whatever the update returns
poll_stays_running(running, c, cpu_acc, timer_acc, bps, dt, rand_byte) ==
    IF ~running
    THEN [is_running |-> running, chip |-> c, cpu |-> cpu_acc, timer |-> timer_acc,
          events |-> << >>, ret |-> Ok(Val("Ok"))]
    ELSE PollResult(running,
                    update_with_breakpoints(c, cpu_acc, timer_acc, dt,
                                            SomeBreakpoints(bps), rand_byte))

\* A variant of poll that lets time accumulate while Paused
poll_accumulates_while_paused(running, c, cpu_acc, timer_acc, bps, dt, rand_byte) ==
    IF ~running
    THEN [is_running |-> running, chip |-> c, cpu |-> f32_add(cpu_acc, dt),
          timer |-> f32_add(timer_acc, dt), events |-> << >>, ret |-> Ok(Val("Ok"))]
    ELSE PollRunning(running,
                     update_with_breakpoints(c, cpu_acc, timer_acc, dt,
                                             SomeBreakpoints(bps), rand_byte))

\* Executor::poll
poll(running, c, cpu_acc, timer_acc, bps, dt, rand_byte) ==
    IF ~running
    THEN [is_running |-> running, chip |-> c, cpu |-> cpu_acc, timer |-> timer_acc,
          events |-> << >>, ret |-> Ok(Val("Ok"))]
    ELSE PollRunning(running,
                     update_with_breakpoints(c, cpu_acc, timer_acc, dt,
                                             SomeBreakpoints(bps), rand_byte))

\* Executor::run
run(running) == TRUE

\* A variant of pause that toggles between Running and Paused
pause_toggles(running) == ~running

\* Executor::pause
pause(running) == FALSE

\* The executor after a step whose cycle had outcome r:
\* cpu_cycle()? returns the error, otherwise Ok(CommandResult::Ok)
StepResult(running, c, r) ==
    [is_running |-> running, chip |-> r.chip,
     events |-> << Event("cpu", c, r.chip, r.res) >>,
     ret |-> IF r.res.ok THEN Ok(Val("Ok")) ELSE Err(r.res.err)]

\* A variant of step that pauses execution after its cycle
step_then_pause(running, c, rand_byte) ==
    StepResult(FALSE, c, cpu_cycle(c, rand_byte))

\* Executor::step: self.runner.chip8_mut().cpu_cycle()?
step(running, c, rand_byte) ==
    StepResult(running, c, cpu_cycle(c, rand_byte))

\* BreakpointAction::Set / Clear / ClearAll
bp_insert(bps, addr) == bps \cup {addr}

bp_remove(bps, addr) == bps \ {addr}

bp_clear(bps) == {}

\* BreakpointAction::List: the members, sorted
RECURSIVE SortedSeq(_)
SortedSeq(set) ==
    IF set = {} THEN << >>
    ELSE LET m == CHOOSE a \in set : \A b \in set : a <= b
         IN << m >> \o SortedSeq(set \ {m})

\* A variant of bp_list that leaves out the sort and yields the members in
\* descending order
RECURSIVE bp_list_unsorted(_)
bp_list_unsorted(bps) ==
    IF bps = {} THEN << >>
    ELSE LET m == CHOOSE a \in bps : \A b \in bps : a >= b
         IN << m >> \o bp_list_unsorted(bps \ {m})

bp_list(bps) == SortedSeq(bps)

\* A panic of the process (slice index out of range)
Panicked == [ok |-> FALSE, err |-> [kind |-> "Panic"]]

\* Executor::handle_mem
handle_mem(c, offset, len) ==
    LET end == Min(MEMORY_SIZE, offset + len)
    IN Ok([kind |-> "MemDump", offset |-> offset,
           data |-> [k \in 1..(end - offset) |-> MemRead(c.memory, offset + k - 1)]])

\* Executor::handle_disasm: memory[pc..pc + 2] panics when pc + 2 > MEMORY_SIZE
RECURSIVE DisasmLoop(_, _, _, _)
DisasmLoop(c, pc, end, instructions) ==
    IF pc >= end THEN Ok(instructions)
    ELSE IF pc + 2 > MEMORY_SIZE THEN Panicked
    ELSE LET value == MemRead(c.memory, pc) * 256 + MemRead(c.memory, pc + 1)
         IN DisasmLoop(c, pc + 2, end, Append(instructions, << value, Decode(value) >>))

handle_disasm(c, offset, len) ==
    LET end == Min(MEMORY_SIZE, offset + len)
        r   == DisasmLoop(c, offset, end, << >>)
    IN IF r.ok
       THEN Ok([kind |-> "Disasm", offset |-> offset, instructions |-> r.val])
       ELSE r

\* Command::Push / Command::Pop on Vec<u16>
stack_push(stack, value) == Append(stack, value)

stack_pop(stack) == IF stack = << >> THEN stack ELSE SubSeq(stack, 1, Len(stack) - 1)

\* ------------------------------------------------------------------------
\* Inputs of the model
\* ------------------------------------------------------------------------
MaxOps == 3
MaxKeyOps == 6
MaxRunOps == 4
MaxStack == 2
MaxCpuOps == 4
MaxShortRom == 3
MaxRomSeed == 15
MaxFrames == 120
MaxDrawOps == 6
MaxPcOps == 6
MaxAluOps == 4
MaxRedrawOps == 8
MaxCopyOps == 11
MaxWaitOps == 6

\* The bytes of a program given as 16-bit words, big-endian
WordsToBytes(ws) ==
    [k \in 1..(2 * Len(ws)) |->
        IF k % 2 = 1 THEN ws[(k + 1) \div 2] \div 256 ELSE ws[k \div 2] % 256]

\* F30A wait for a key into V3; 1200 jump back
RomKey == WordsToBytes(<< \hF30A, \h1200 >>)

\* 00E0 clear; 6105 V1 = 5; 1204 jump to self
RomEndToEnd == WordsToBytes(<< \h00E0, \h6105, \h1204 >>)

\* 603C V0 = 60; A050 I = glyph 0; D015 draw 5 rows at (V0, V1); 1204 draw again
RomDraw == WordsToBytes(<< \h603C, \hA050, \hD015, \h1204 >>)

\* 6002 V0 = 2; BFFF jump to 0xFFF + V0
RomJumpOffset == WordsToBytes(<< \h6002, \hBFFF >>)

\* 2204 call 0x204; 00EE return (empty stack on the way back); 00EE return
RomCall == WordsToBytes(<< \h2204, \h00EE, \h00EE >>)

\* 6003 V0 = 3; F015 delay = V0; F018 sound = V0; F107 V1 = delay; 1206 loop
RomTimer == WordsToBytes(<< \h6003, \hF015, \hF018, \hF107, \h1206 >>)

Roms == {RomKey, RomEndToEnd, RomDraw, RomJumpOffset, RomCall, RomTimer}

Keys == {1, 5}

Dts == {CPU_TIME_STEP, f32_mul(3, CPU_TIME_STEP), TIMER_TIME_STEP}

RandBytes == {\hAA}

BpAddrs == {\h202, \h204}

MemArgs == {<< \h200, 4 >>, << \hFFE, 32 >>}

DisasmArgs == {<< \h200, 4 >>, << \hFFE, 32 >>, << \hFFF, 1 >>}

VArgs == {<< 0, 255 >>, << 3, 1 >>}

IArgs == {\hFFF}

PcArgs == {\h200, \hFFE}

TimerArgs == {2}

PushArgs == {\h200}

\* ------------------------------------------------------------------------
\* State
\* ------------------------------------------------------------------------
VARIABLES
    chip8,                  \* Chip8Runner.chip8
    cpu_dt_accumulator,     \* Chip8Runner.cpu_dt_accumulator
    timer_dt_accumulator,   \* Chip8Runner.timer_dt_accumulator
    is_running,             \* Executor.is_running
    breakpoints,            \* Executor.breakpoints
    last,                   \* the last operation called and its arguments
    events,                 \* the timer ticks and CPU cycles it ran, in order
    ret,                    \* what it returned
    ops                     \* number of operations called so far

vars == << chip8, cpu_dt_accumulator, timer_dt_accumulator, is_running,
           breakpoints, last, events, ret, ops >>

runner == << chip8, cpu_dt_accumulator, timer_dt_accumulator >>

\* App::new: Chip8::default(), load(rom)?, Chip8Runner::new, Executor::new
InitOf(roms) ==
    \E rom \in roms :
        /\ load(Chip8New, rom).res.ok
        /\ chip8 = load(Chip8New, rom).chip
        /\ cpu_dt_accumulator = 0
        /\ timer_dt_accumulator = 0
        /\ is_running = FALSE
        /\ breakpoints = {}
        /\ last = [name |-> "New"]
        /\ events = << >>
        /\ ret = Ok(Val("Unit"))
        /\ ops = 0

Init == InitOf(Roms)

\* The process is gone once a command has panicked
Alive ==
    /\ ~(~ret.ok /\ ret.err.kind = "Panic")
    /\ ~(ret.ok /\ ret.val.kind = "Quit")

StackBounded(c) == Len(c.stack) <= MaxStack

\* ------------------------------------------------------------------------
\* Operations
\* ------------------------------------------------------------------------
\* The executor and its runner take the values r of a poll
Polled(r) ==
    /\ StackBounded(r.chip)
    /\ chip8' = r.chip
    /\ cpu_dt_accumulator' = r.cpu
    /\ timer_dt_accumulator' = r.timer
    /\ is_running' = r.is_running
    /\ events' = r.events
    /\ ret' = r.ret

\* The runner takes the values r of an update
Updated(r) ==
    /\ StackBounded(r.chip)
    /\ chip8' = r.chip
    /\ cpu_dt_accumulator' = r.cpu
    /\ timer_dt_accumulator' = r.timer
    /\ events' = r.events
    /\ ret' = r.ret

\* The executor takes the values r of a step
Stepped(r) ==
    /\ StackBounded(r.chip)
    /\ chip8' = r.chip
    /\ is_running' = r.is_running
    /\ events' = r.events
    /\ ret' = r.ret

\* App::run (dbg.rs): self.executor.poll(dt)
Poll(dt, rand_byte) ==
    /\ Alive
    /\ Polled(poll(is_running, chip8, cpu_dt_accumulator, timer_dt_accumulator,
                   breakpoints, dt, rand_byte))
    /\ last' = [name |-> "Poll", dt |-> dt]
    /\ ops' = ops + 1
    /\ UNCHANGED breakpoints

\* Chip8Runner::update called on the runner itself (emu.rs, Executor::runner_mut)
Update(dt, rand_byte) ==
    /\ Alive
    /\ Updated(update(chip8, cpu_dt_accumulator, timer_dt_accumulator, dt, rand_byte))
    /\ last' = [name |-> "Update", dt |-> dt]
    /\ ops' = ops + 1
    /\ UNCHANGED << is_running, breakpoints >>

\* Chip8Runner::set_key from the host's key press / release events
KeyEvent(key, pressed) ==
    /\ Alive
    /\ chip8' = set_key(chip8, key, pressed)
    /\ last' = [name |-> "KeyEvent", key |-> key, pressed |-> pressed]
    /\ events' = << >>
    /\ ret' = Ok(Val("Unit"))
    /\ ops' = ops + 1
    /\ UNCHANGED << cpu_dt_accumulator, timer_dt_accumulator, is_running, breakpoints >>

\* Executor::execute, one action per Command
CmdRun ==
    /\ Alive
    /\ is_running' = run(is_running)
    /\ last' = [name |-> "Run"]
    /\ events' = << >>
    /\ ret' = Ok(Val("Ok"))
    /\ ops' = ops + 1
    /\ UNCHANGED << runner, breakpoints >>

CmdPause ==
    /\ Alive
    /\ is_running' = pause(is_running)
    /\ last' = [name |-> "Pause"]
    /\ events' = << >>
    /\ ret' = Ok(Val("Ok"))
    /\ ops' = ops + 1
    /\ UNCHANGED << runner, breakpoints >>

CmdStep(rand_byte) ==
    /\ Alive
    /\ Stepped(step(is_running, chip8, rand_byte))
    /\ last' = [name |-> "Step"]
    /\ ops' = ops + 1
    /\ UNCHANGED << cpu_dt_accumulator, timer_dt_accumulator, breakpoints >>

CmdQuit ==
    /\ Alive
    /\ last' = [name |-> "Quit"]
    /\ events' = << >>
    /\ ret' = Ok(Val("Quit"))
    /\ ops' = ops + 1
    /\ UNCHANGED << runner, is_running, breakpoints >>

CmdBreakpointSet(addr) ==
    /\ Alive
    /\ breakpoints' = bp_insert(breakpoints, addr)
    /\ last' = [name |-> "BreakpointSet", addr |-> addr]
    /\ events' = << >>
    /\ ret' = Ok(Val("Ok"))
    /\ ops' = ops + 1
    /\ UNCHANGED << runner, is_running >>

CmdBreakpointClear(addr) ==
    /\ Alive
    /\ breakpoints' = bp_remove(breakpoints, addr)
    /\ last' = [name |-> "BreakpointClear", addr |-> addr]
    /\ events' = << >>
    /\ ret' = Ok(Val("Ok"))
    /\ ops' = ops + 1
    /\ UNCHANGED << runner, is_running >>

CmdBreakpointClearAll ==
    /\ Alive
    /\ breakpoints' = bp_clear(breakpoints)
    /\ last' = [name |-> "BreakpointClearAll"]
    /\ events' = << >>
    /\ ret' = Ok(Val("Ok"))
    /\ ops' = ops + 1
    /\ UNCHANGED << runner, is_running >>

CmdBreakpointList ==
    /\ Alive
    /\ last' = [name |-> "BreakpointList"]
    /\ events' = << >>
    /\ ret' = Ok([kind |-> "Breakpoints", list |-> bp_list(breakpoints)])
    /\ ops' = ops + 1
    /\ UNCHANGED << runner, is_running, breakpoints >>

CmdMem(offset, len) ==
    /\ Alive
    /\ last' = [name |-> "Mem", offset |-> offset, len |-> len]
    /\ events' = << >>
    /\ ret' = handle_mem(chip8, offset, len)
    /\ ops' = ops + 1
    /\ UNCHANGED << runner, is_running, breakpoints >>

CmdDisasm(offset, len) ==
    /\ Alive
    /\ last' = [name |-> "Disasm", offset |-> offset, len |-> len]
    /\ events' = << >>
    /\ ret' = handle_disasm(chip8, offset, len)
    /\ ops' = ops + 1
    /\ UNCHANGED << runner, is_running, breakpoints >>

\* The commands that assign one field of the machine state
Edit(name, c) ==
    /\ Alive
    /\ StackBounded(c)
    /\ chip8' = c
    /\ last' = name
    /\ events' = << >>
    /\ ret' = Ok(Val("Ok"))
    /\ ops' = ops + 1
    /\ UNCHANGED << cpu_dt_accumulator, timer_dt_accumulator, is_running, breakpoints >>

CmdSetV(idx, value) ==
    Edit([name |-> "SetV", idx |-> idx, value |-> value], [chip8 EXCEPT !.v[idx] = value])

CmdSetI(value) ==
    Edit([name |-> "SetI", value |-> value], [chip8 EXCEPT !.i = value])

CmdSetPc(value) ==
    Edit([name |-> "SetPc", value |-> value], [chip8 EXCEPT !.pc = value])

CmdSetKey(key, pressed) ==
    Edit([name |-> "SetKey", key |-> key, pressed |-> pressed],
         [chip8 EXCEPT !.keypad[key] = pressed])

CmdSetDt(value) ==
    Edit([name |-> "SetDt", value |-> value], [chip8 EXCEPT !.delay_timer = value])

CmdSetSt(value) ==
    Edit([name |-> "SetSt", value |-> value], [chip8 EXCEPT !.sound_timer = value])

CmdPush(value) ==
    Edit([name |-> "Push", value |-> value],
         [chip8 EXCEPT !.stack = stack_push(chip8.stack, value)])

CmdPop ==
    Edit([name |-> "Pop"], [chip8 EXCEPT !.stack = stack_pop(chip8.stack)])

\* The number of operations performed so far is below max
Within(max) == ops < max

\* The debugger: every operation of the executor, for a few operations
Next ==
    \/ Within(MaxOps) /\ \E dt \in Dts, r \in RandBytes : Poll(dt, r)
    \/ Within(MaxOps) /\ \E k \in Keys, p \in BOOLEAN : KeyEvent(k, p)
    \/ Within(MaxOps) /\ CmdRun
    \/ Within(MaxOps) /\ CmdPause
    \/ Within(MaxOps) /\ \E r \in RandBytes : CmdStep(r)
    \/ Within(MaxOps) /\ CmdQuit
    \/ Within(MaxOps) /\ \E a \in BpAddrs : CmdBreakpointSet(a)
    \/ Within(MaxOps) /\ \E a \in BpAddrs : CmdBreakpointClear(a)
    \/ Within(MaxOps) /\ CmdBreakpointClearAll
    \/ Within(MaxOps) /\ CmdBreakpointList
    \/ Within(MaxOps) /\ \E a \in MemArgs : CmdMem(a[1], a[2])
    \/ Within(MaxOps) /\ \E a \in DisasmArgs : CmdDisasm(a[1], a[2])
    \/ Within(MaxOps) /\ \E a \in VArgs : CmdSetV(a[1], a[2])
    \/ Within(MaxOps) /\ \E a \in IArgs : CmdSetI(a)
    \/ Within(MaxOps) /\ \E a \in PcArgs : CmdSetPc(a)
    \/ Within(MaxOps) /\ \E k \in Keys, p \in BOOLEAN : CmdSetKey(k, p)
    \/ Within(MaxOps) /\ \E a \in TimerArgs : CmdSetDt(a)
    \/ Within(MaxOps) /\ \E a \in TimerArgs : CmdSetSt(a)
    \/ Within(MaxOps) /\ \E a \in PushArgs : CmdPush(a)
    \/ Within(MaxOps) /\ CmdPop

Spec == Init /\ [][Next]_vars

\* A program waiting for keys, run by polls and single steps
InitKey == InitOf({RomKey})

NextKey ==
    \/ Within(MaxKeyOps) /\ \E dt \in Dts, r \in RandBytes : Poll(dt, r)
    \/ Within(MaxKeyOps) /\ \E k \in Keys, p \in BOOLEAN : KeyEvent(k, p)
    \/ Within(MaxKeyOps) /\ CmdRun
    \/ Within(MaxKeyOps) /\ \E r \in RandBytes : CmdStep(r)

SpecKey == InitKey /\ [][NextKey]_vars

\* The timing runner over every program, with and without breakpoints
NextRun ==
    \/ Within(MaxRunOps) /\ \E dt \in Dts, r \in RandBytes : Poll(dt, r)
    \/ Within(MaxRunOps) /\ \E dt \in Dts, r \in RandBytes : Update(dt, r)
    \/ Within(MaxRunOps) /\ CmdRun
    \/ Within(MaxRunOps) /\ \E a \in BpAddrs : CmdBreakpointSet(a)

SpecRun == Init /\ [][NextRun]_vars

\* Programs that drive the index register, the stack and memory accesses
\* to the edges of the address space
\* AFFF I = 0xFFF; 6002 V0 = 2; F01E I += V0
RomIndex == WordsToBytes(<< \hAFFF, \h6002, \hF01E >>)

\* 1FFF jump to the last byte of memory
RomJumpEnd == WordsToBytes(<< \h1FFF >>)

\* 6001 V0 = 1; FFFF no instruction
RomUnknown == WordsToBytes(<< \h6001, \hFFFF >>)

\* 6001 V0 = 1; 8128 no ALU operation
RomUnknownALU == WordsToBytes(<< \h6001, \h8128 >>)

\* AFFF I = 0xFFF; 6007 V0 = 7; F155 store V0, V1 from I on
RomStore == WordsToBytes(<< \hAFFF, \h6007, \hF155 >>)

\* AFFF I = 0xFFF; F165 load V0, V1 from I on
RomLoadRegs == WordsToBytes(<< \hAFFF, \hF165 >>)

\* AFFE I = 0xFFE; 60FE V0 = 254; F033 digits of V0 from I on
RomBcd == WordsToBytes(<< \hAFFE, \h60FE, \hF033 >>)

\* AFFF I = 0xFFF; D012 draw 2 rows from I on
RomDrawEnd == WordsToBytes(<< \hAFFF, \hD012 >>)

\* The delay and sound timers are set to 1, then an idle loop
RomTimersOne == WordsToBytes(<< \h6001, \hF015, \hF018, \h1206 >>)

\* The delay timer is set to 2, the sound timer stays 0, then an idle loop
RomDelayOnly == WordsToBytes(<< \h6002, \hF015, \h1204 >>)

\* 2206 call A; 1202 idle; 0000; A: 220A call B, 00EE return; B: 00EE return
RomNested == WordsToBytes(<< \h2206, \h1202, \h0000, \h220A, \h00EE, \h00EE >>)

CpuRoms ==
    {RomIndex, RomJumpEnd, RomUnknown, RomUnknownALU, RomStore, RomLoadRegs,
     RomBcd, RomDrawEnd, RomCall, RomJumpOffset, RomTimersOne, RomDelayOnly,
     RomNested}

\* Frame times of the runner: also ten CPU steps and two timer steps
CpuDts == Dts \cup {f32_mul(10, CPU_TIME_STEP), f32_mul(2, TIMER_TIME_STEP)}

\* The machine run from a loaded program by single cycles and by updates
InitCpu == InitOf(CpuRoms)

NextCpu ==
    \/ Within(MaxCpuOps) /\ \E r \in RandBytes : CmdStep(r)
    \/ Within(MaxCpuOps) /\ \E dt \in CpuDts, r \in RandBytes : Update(dt, r)

SpecCpu == InitCpu /\ [][NextCpu]_vars

\* The decoder alone: one 16-bit word is drawn and decoded
Words == 0..(U16 - 1)

InitDecode ==
    \E word \in Words :
        /\ chip8 = Chip8New
        /\ cpu_dt_accumulator = 0
        /\ timer_dt_accumulator = 0
        /\ is_running = FALSE
        /\ breakpoints = {}
        /\ last = [name |-> "Word", opcode |-> word]
        /\ events = << >>
        /\ ret = Ok(Val("Unit"))
        /\ ops = 0

DecodeWord ==
    /\ last.name = "Word"
    /\ last' = [name |-> "Decode", opcode |-> last.opcode]
    /\ ret' = Ok(Decode(last.opcode))
    /\ ops' = ops + 1
    /\ UNCHANGED << chip8, cpu_dt_accumulator, timer_dt_accumulator,
                    is_running, breakpoints, events >>

NextDecode == DecodeWord

SpecDecode == InitDecode /\ [][NextDecode]_vars

\* Loading alone: one ROM is drawn and loaded into a fresh machine
\* A ROM of the given length whose bytes follow from the seed
RomOf(len, seed) == [k \in 1..len |-> (seed + 7 * k) % 256]

RomLengths ==
    (0..MaxShortRom) \cup
        { MEMORY_SIZE - ROM_START_ADDRESS - 1, MEMORY_SIZE - ROM_START_ADDRESS,
          MEMORY_SIZE - ROM_START_ADDRESS + 1, MEMORY_SIZE - ROM_START_ADDRESS + 2 }

LoadRoms == {RomOf(len, seed) : len \in RomLengths, seed \in 0..MaxRomSeed}

InitLoad ==
    \E rom \in LoadRoms :
        /\ chip8 = Chip8New
        /\ cpu_dt_accumulator = 0
        /\ timer_dt_accumulator = 0
        /\ is_running = FALSE
        /\ breakpoints = {}
        /\ last = [name |-> "Rom", rom |-> rom]
        /\ events = << >>
        /\ ret = Ok(Val("Unit"))
        /\ ops = 0

Loaded(r) ==
    /\ chip8' = r.chip
    /\ ret' = r.res

LoadRom ==
    /\ last.name = "Rom"
    /\ Loaded(load(chip8, last.rom))
    /\ last' = [name |-> "Load", rom |-> last.rom]
    /\ ops' = ops + 1
    /\ UNCHANGED << cpu_dt_accumulator, timer_dt_accumulator,
                    is_running, breakpoints, events >>

NextLoad == LoadRom

SpecLoad == InitLoad /\ [][NextLoad]_vars

\* The end-to-end run: the program 00E0 6105 1204, one update of exactly
\* one CPU time step per frame
InitEndToEnd == InitOf({RomEndToEnd})

NextEndToEnd ==
    Within(MaxFrames) /\ \E r \in RandBytes : Update(CPU_TIME_STEP, r)

SpecEndToEnd == InitEndToEnd /\ [][NextEndToEnd]_vars

\* Drawing: programs that set V0, V1 and I, draw the same sprite twice and
\* then idle; the sprite data follows the code, at 0x20C
SpriteBytes == [k \in 1..15 |-> IF k % 2 = 1 THEN \hFF ELSE \h81]

SpriteAddress == ROM_START_ADDRESS + 12

RomOfDraw(vx, vy, n, index) ==
    WordsToBytes(<< \h6000 + vx, \h6100 + vy, \hA000 + index,
                    \hD010 + n, \hD010 + n, \h120A >>) \o SpriteBytes

DrawXs == {0, 60, 63, 124, 255}

DrawYs == {0, 30, 31, 62, 255}

DrawHeights == {0, 1, 2, 15}

DrawIndexes == {SpriteAddress, FONT_START_ADDRESS, MEMORY_SIZE - 8, MEMORY_SIZE - 1}

DrawRoms ==
    {RomOfDraw(vx, vy, n, index) :
        vx \in DrawXs, vy \in DrawYs, n \in DrawHeights, index \in DrawIndexes}

InitDraw == InitOf(DrawRoms)

NextDraw == Within(MaxDrawOps) /\ \E r \in RandBytes : CmdStep(r)

SpecDraw == InitDraw /\ [][NextDraw]_vars

\* One instruction of every kind that falls through to the next one: the
\* program sets V0 and V1, runs the instruction and idles at the address it
\* is left at
RomOfInstr(v0, v1, word) ==
    WordsToBytes(<< \h6000 + v0, \h6100 + v1, word, \h1206, \h1208 >>)

PcValues == {0, 1, 5}

PcWords ==
    { \h00E0, \h3001, \h4001, \h5010, \h9010, \hE09E, \hE0A1, \h62AB,
      \h70FF, \h8014, \hA123, \hC0FF, \hD011, \hF007, \hF00A, \hF015,
      \hF018, \hF01E, \hF029, \hF033, \hF155, \hF165 }

PcRoms == {RomOfInstr(v0, v1, word) : v0 \in PcValues, v1 \in PcValues, word \in PcWords}

InitPc == InitOf(PcRoms)

NextPc ==
    \/ Within(MaxPcOps) /\ \E r \in RandBytes : CmdStep(r)
    \/ Within(MaxPcOps) /\ \E k \in Keys, p \in BOOLEAN : KeyEvent(k, p)

SpecPc == InitPc /\ [][NextPc]_vars

\* The ALU: the program sets V0, V1 and VF, runs one 8xy_ instruction and
\* idles
RomOfAlu(v0, v1, vf, word) ==
    WordsToBytes(<< \h6000 + v0, \h6100 + v1, \h6F00 + vf, word, \h1208 >>)

AluValues == {0, 1, 3, 5, 6, \h7F, \h80, \hFE, \hFF}

FlagValues == {0, 1, \hFF}

\* 8xy_ for the register pairs (0, 1), (F, 1), (0, F) and (0, 0)
AluRegisters == {\h8010, \h8F10, \h80F0, \h8000}

AluSubOps == {0, 1, 2, 3, 4, 5, 6, 7, 14}

AluRoms ==
    {RomOfAlu(v0, v1, vf, regs + sub) :
        v0 \in AluValues, v1 \in AluValues, vf \in FlagValues,
        regs \in AluRegisters, sub \in AluSubOps}

InitAlu == InitOf(AluRoms)

NextAlu == Within(MaxAluOps) /\ \E r \in RandBytes : CmdStep(r)

SpecAlu == InitAlu /\ [][NextAlu]_vars

\* Drawing again: programs that set V0, V1, VF and I, draw the same sprite
\* three times in a row and then idle; the sprite data follows the code, at
\* 0x210
RedrawSpriteAddress == ROM_START_ADDRESS + 16

\* An address of memory that holds zeroes only
BlankAddress == \h300

RomOfRedraw(vx, vy, vf, n, index) ==
    WordsToBytes(<< \h6000 + vx, \h6100 + vy, \h6F00 + vf, \hA000 + index,
                    \hD010 + n, \hD010 + n, \hD010 + n, \h120E >>) \o SpriteBytes

RedrawIndexes == {RedrawSpriteAddress, FONT_START_ADDRESS, BlankAddress, MEMORY_SIZE - 1}

RedrawRoms ==
    {RomOfRedraw(vx, vy, vf, n, index) :
        vx \in DrawXs, vy \in DrawYs, vf \in FlagValues, n \in DrawHeights,
        index \in RedrawIndexes}

InitRedraw == InitOf(RedrawRoms)

NextRedraw == Within(MaxRedrawOps) /\ \E r \in RandBytes : CmdStep(r)

SpecRedraw == InitRedraw /\ [][NextRedraw]_vars

\* Register blocks: the program sets V0, V1, V2 and I, stores V0..Vx,
\* overwrites V0, V1, V2, sets I again, loads V0..Vx and idles
RomOfCopy(v0, v1, v2, x, index) ==
    WordsToBytes(<< \h6000 + v0, \h6100 + v1, \h6200 + v2, \hA000 + index,
                    \hF055 + 256 * x,
                    \h6055, \h6155, \h6255, \hA000 + index,
                    \hF065 + 256 * x, \h1214 >>)

\* The addresses of the StoreRegs and the LoadRegs of RomOfCopy
CopyStoreAddress == ROM_START_ADDRESS + 8

CopyLoadAddress == ROM_START_ADDRESS + 18

CopyValues == {<< 1, 2, 3 >>, << \hFF, 0, \h80 >>, << 0, \h7F, \hFE >>}

CopyCounts == {0, 1, 2, 15}

CopyIndexes == {FONT_START_ADDRESS, BlankAddress, MEMORY_SIZE - 3, MEMORY_SIZE - 1}

CopyRoms ==
    {RomOfCopy(vs[1], vs[2], vs[3], x, index) :
        vs \in CopyValues, x \in CopyCounts, index \in CopyIndexes}

InitCopy == InitOf(CopyRoms)

NextCopy == Within(MaxCopyOps) /\ \E r \in RandBytes : CmdStep(r)

SpecCopy == InitCopy /\ [][NextCopy]_vars

\* A program waiting for keys, run by update calls of the emulator
NextWait ==
    \/ Within(MaxWaitOps) /\ \E dt \in Dts, r \in RandBytes : Update(dt, r)
    \/ Within(MaxWaitOps) /\ \E k \in Keys, p \in BOOLEAN : KeyEvent(k, p)

SpecWait == InitKey /\ [][NextWait]_vars

\* ------------------------------------------------------------------------
\* Observations on the record of the last operation
\* ------------------------------------------------------------------------
EventIndices == 1..Len(events)

IsCpu(e) == e.kind = "cpu"

\* The instruction a CPU cycle executed, when its fetch succeeded
Fetched(e) == IsCpu(e) /\ fetch(e.pre).ok

InstrOf(e) == Decode(fetch(e.pre).val)

Executes(e, opname) == Fetched(e) /\ InstrOf(e).op = opname

Returned(e, value) == e.res.ok /\ e.res.val = value

Failed(e) == ~e.res.ok

CpuEventCount == Cardinality({k \in EventIndices : IsCpu(events[k])})

\* The events of a call start at the state before it, follow one another
\* and end at the state after it
Chained(before, evs, after) ==
    IF evs = << >> THEN TRUE
    ELSE /\ evs[1].pre = before
         /\ evs[Len(evs)].post = after
         /\ \A k \in 1..(Len(evs) - 1) : evs[k].post = evs[k + 1].pre

IsUpdateCall == last.name \in {"Poll", "Update"}

RetIs(kind) == ret.ok /\ ret.val.kind = kind

\* ------------------------------------------------------------------------
\* C1  A WaitForKey cycle returns Continue and writes Vx only when it finds
\*     the tracked key released; the tracked key changes only in a
\*     WaitForKey cycle: it is set, from none, to a key that cycle saw
\*     pressed, and that cycle returns WaitForNextFrame without writing Vx;
\*     nothing else (timer ticks, key events, other instructions) tracks a
\*     key or clears it.
\* ------------------------------------------------------------------------
Completes(e) ==
    /\ e.pre.wait_release_key # None
    /\ ~e.pre.keypad[e.pre.wait_release_key]
    /\ e.post.v[InstrOf(e).x] = e.pre.wait_release_key
    /\ e.post.wait_release_key = None
    /\ Returned(e, Continue)

Arms(e) ==
    /\ e.pre.wait_release_key = None
    /\ e.post.wait_release_key \in 0..15
    /\ e.pre.keypad[e.post.wait_release_key]
    /\ e.post.v = e.pre.v
    /\ Returned(e, WaitForNextFrame)

WaitForKeyCycleOk(e) ==
    /\ Executes(e, "WaitForKey") /\ (Returned(e, Continue) \/ e.post.v # e.pre.v)
          => Completes(e)
    /\ e.post.wait_release_key # e.pre.wait_release_key
          => Executes(e, "WaitForKey") /\ (Completes(e) \/ Arms(e))

C1_PressThenRelease ==
    [][ /\ Chained(chip8, events', chip8')
        /\ \A k \in 1..Len(events') : WaitForKeyCycleOk(events'[k])
        /\ events' = << >> => chip8'.wait_release_key = chip8.wait_release_key ]_vars

\* A WaitForKey cycle has completed on the release of a key it tracked
C1_Witness ==
    \E k \in EventIndices :
        /\ Executes(events[k], "WaitForKey")
        /\ Completes(events[k])
        /\ chip8.v[3] = 5

\* ------------------------------------------------------------------------
\* C2  A WaitForKey cycle that does not complete (no key tracked, or the
\*     tracked key still held) leaves the program counter at the
\*     instruction's own address and the V registers unchanged, and returns
\*     WaitForNextFrame.
\* ------------------------------------------------------------------------
NotCompleting(e) ==
    \/ e.pre.wait_release_key = None
    \/ e.pre.keypad[e.pre.wait_release_key]

C2_UnfinishedWaitRepeats ==
    \A k \in EventIndices :
        LET e == events[k]
        IN Executes(e, "WaitForKey") /\ NotCompleting(e)
              => /\ e.post.pc = e.pre.pc
                 /\ e.post.v = e.pre.v
                 /\ Returned(e, WaitForNextFrame)

\* A WaitForKey cycle has run while the tracked key was still held
C2_Witness ==
    \E k \in EventIndices :
        /\ Executes(events[k], "WaitForKey")
        /\ events[k].pre.wait_release_key = 5
        /\ events[k].pre.keypad[5]
        /\ events[k].post.pc = events[k].pre.pc

\* ------------------------------------------------------------------------
\* C3  Within one update call, a CPU cycle that returns WaitForNextFrame is
\*     the last cycle of the call and the CPU accumulator is zero on return;
\*     so at most one Draw instruction executes per update call.
\* ------------------------------------------------------------------------
C3_FrameEndsCall ==
    IsUpdateCall =>
        /\ \A k \in EventIndices :
              IsCpu(events[k]) /\ Returned(events[k], WaitForNextFrame)
                 => k = Len(events) /\ cpu_dt_accumulator = 0
        /\ Cardinality({k \in EventIndices : Executes(events[k], "Draw")}) <= 1

\* An update call with time for eleven cycles was cut short by a Draw
C3_Witness ==
    /\ IsUpdateCall
    /\ last.dt = TIMER_TIME_STEP
    /\ events # << >>
    /\ Executes(events[Len(events)], "Draw")
    /\ Returned(events[Len(events)], WaitForNextFrame)
    /\ CpuEventCount < TIMER_TIME_STEP \div CPU_TIME_STEP
    /\ cpu_dt_accumulator = 0

\* ------------------------------------------------------------------------
\* C4  When a CPU cycle fails with an execution error, the update call
\*     returns the error, runs no further cycle, and leaves the CPU
\*     accumulator at zero.
\* ------------------------------------------------------------------------
C4_ErrorZeroesAccumulator ==
    IsUpdateCall /\ ~ret.ok =>
        /\ events # << >>
        /\ Failed(events[Len(events)])
        /\ ret = Err(events[Len(events)].res.err)
        /\ \A k \in 1..(Len(events) - 1) : ~Failed(events[k])
        /\ cpu_dt_accumulator = 0

\* ------------------------------------------------------------------------
\* C5  With breakpoint checking (poll), a successful CPU cycle whose
\*     resulting program counter is in the breakpoint set is the last cycle
\*     of the call, the call returns hit-breakpoint and the CPU accumulator
\*     is zero; without breakpoint checking (update) the call never returns
\*     hit-breakpoint and, unless a cycle ends the frame or fails, runs all
\*     the cycles the accumulated time allows.
\* ------------------------------------------------------------------------
C5_BreakpointStopsCall ==
    /\ last.name = "Poll" =>
          \A k \in EventIndices :
              IsCpu(events[k]) /\ events[k].res.ok /\ events[k].post.pc \in breakpoints
                 => /\ k = Len(events)
                    /\ RetIs("HitBreakpoint")
                    /\ cpu_dt_accumulator = 0
    /\ last.name = "Update" =>
          /\ ~RetIs("HitBreakpoint")
          /\ ret.ok /\ ~(\E k \in EventIndices :
                            IsCpu(events[k]) /\ Returned(events[k], WaitForNextFrame))
                => cpu_dt_accumulator < CPU_TIME_STEP

\* A poll with time for eleven cycles stopped early on a breakpoint
C5_Witness ==
    /\ last.name = "Poll"
    /\ last.dt = TIMER_TIME_STEP
    /\ RetIs("HitBreakpoint")
    /\ chip8.pc \in breakpoints
    /\ CpuEventCount < TIMER_TIME_STEP \div CPU_TIME_STEP
    /\ cpu_dt_accumulator = 0

\* ------------------------------------------------------------------------
\* C6  As stated: whenever a poll reports a breakpoint hit, or a poll or a
\*     step reports an execution error, the debugger is Paused afterwards.
\* ------------------------------------------------------------------------
C6_PausedAfterStop ==
    \/ last.name = "Poll" /\ RetIs("HitBreakpoint")
    \/ last.name \in {"Poll", "Step"} /\ ~ret.ok
    => ~is_running

\* C6  As the code has it: whenever a poll reports a breakpoint hit or an
\*     execution error, the debugger is Paused afterwards; a step that
\*     reports an execution error leaves the Running/Paused state as it was.
C6_PollPausesStepDoesNot ==
    [][ /\ last'.name = "Poll" /\ (~ret'.ok \/ (ret'.ok /\ ret'.val.kind = "HitBreakpoint"))
           => ~is_running'
        /\ last'.name = "Step" /\ ~ret'.ok
           => is_running' = is_running ]_vars

\* A poll issued while Running reported an execution error and paused
C6_Witness ==
    /\ last.name = "Poll"
    /\ events # << >>
    /\ ~ret.ok
    /\ ~is_running

\* ------------------------------------------------------------------------
\* C7  The debugger starts Paused; run makes it Running and pause makes it
\*     Paused, from either state; no other successful command changes the
\*     Running/Paused state.
\* ------------------------------------------------------------------------
IsCommand(name) == name \notin {"New", "Poll", "Update", "KeyEvent"}

C7_RunPauseOnly ==
    /\ ~is_running
    /\ [][ /\ last'.name = "Run" => is_running'
           /\ last'.name = "Pause" => ~is_running'
           /\ IsCommand(last'.name) /\ last'.name \notin {"Run", "Pause"} /\ ret'.ok
              => is_running' = is_running ]_vars

\* A successful step was executed while Running and left it Running
C7_Witness ==
    /\ last.name = "Step"
    /\ ret.ok
    /\ is_running

\* ------------------------------------------------------------------------
\* C8  step executes exactly one CPU cycle whatever the Running/Paused
\*     state, leaves that state as it was, ticks no timer, checks no
\*     breakpoint and changes neither accumulator.
\* ------------------------------------------------------------------------
C8_StepIsOneCycle ==
    [][ last'.name = "Step" =>
          /\ Len(events') = 1
          /\ IsCpu(events'[1])
          /\ \E rand_byte \in RandBytes :
                /\ chip8' = cpu_cycle(chip8, rand_byte).chip
                /\ events'[1] = Event("cpu", chip8, chip8', cpu_cycle(chip8, rand_byte).res)
          /\ is_running' = is_running
          /\ ~(ret'.ok /\ ret'.val.kind = "HitBreakpoint")
          /\ cpu_dt_accumulator' = cpu_dt_accumulator
          /\ timer_dt_accumulator' = timer_dt_accumulator ]_vars

\* A step issued while Running landed on a breakpoint address and went on
C8_Witness ==
    /\ last.name = "Step"
    /\ ret = Ok(Val("Ok"))
    /\ is_running
    /\ chip8.pc \in breakpoints

\* ------------------------------------------------------------------------
\* C9  While Paused, a poll with any elapsed time runs no CPU cycle and no
\*     timer tick and leaves the machine state and both accumulators
\*     unchanged.
\* ------------------------------------------------------------------------
C9_PausedPollIsNoOp ==
    [][ last'.name = "Poll" /\ ~is_running =>
          /\ events' = << >>
          /\ chip8' = chip8
          /\ cpu_dt_accumulator' = cpu_dt_accumulator
          /\ timer_dt_accumulator' = timer_dt_accumulator
          /\ ~is_running'
          /\ ret' = Ok(Val("Ok")) ]_vars

\* A poll with a whole timer period elapsed ran nothing
C9_Witness ==
    /\ last.name = "Poll"
    /\ last.dt = TIMER_TIME_STEP
    /\ ~is_running
    /\ events = << >>
    /\ cpu_dt_accumulator < CPU_TIME_STEP
    /\ timer_dt_accumulator < TIMER_TIME_STEP

\* ------------------------------------------------------------------------
\* C10 In every state reached by CPU cycles from a loaded ROM the program
\*     counter is within 0..0xFFF.
\* ------------------------------------------------------------------------
C10_PcInAddressSpace == chip8.pc \in 0..(MEMORY_SIZE - 1)

\* ------------------------------------------------------------------------
\* C11 In every state reached by CPU cycles from a loaded ROM the index
\*     register is within 0..0xFFF.
\* ------------------------------------------------------------------------
C11_IndexInAddressSpace == chip8.i \in 0..(MEMORY_SIZE - 1)

\* ------------------------------------------------------------------------
\* C12 A Return executed with an empty call stack fails with the
\*     stack-underflow error, leaves the stack empty and takes no program
\*     counter from the stack: the counter is the address after the Return
\*     and nothing else of the machine has changed.
\* ------------------------------------------------------------------------
C12_ReturnOnEmptyStack ==
    \A k \in EventIndices :
        LET e == events[k]
        IN Executes(e, "Return") /\ e.pre.stack = << >>
              => /\ e.res = Err(StackUnderflow)
                 /\ e.post.stack = << >>
                 /\ e.post = [e.pre EXCEPT !.pc = wrapping_add(e.pre.pc, 2)]

\* A Return has been executed on an empty stack, after a call and a return
C12_Witness ==
    \E k \in EventIndices :
        /\ Executes(events[k], "Return")
        /\ events[k].pre.stack = << >>
        /\ events[k].pre.pc = \h202
        /\ Failed(events[k])
        /\ chip8 = events[k].post

\* ------------------------------------------------------------------------
\* C13 A pop of an empty call stack is always reported as an error, never
\*     silently ignored: a Return executed on an empty stack fails, and so
\*     does the debugger's stack-pop command issued on an empty stack.
\* ------------------------------------------------------------------------
C13_EmptyPopIsAnError ==
    [][ /\ \A k \in 1..Len(events') :
              Executes(events'[k], "Return") /\ events'[k].pre.stack = << >>
                 => Failed(events'[k])
        /\ last'.name = "Pop" /\ chip8.stack = << >> => ~ret'.ok ]_vars

\* ------------------------------------------------------------------------
\* C14 A memory-out-of-bounds error is raised only by a BCD, StoreRegs,
\*     LoadRegs or Draw instruction; the instruction fetch of a CPU cycle
\*     never raises it.
\* ------------------------------------------------------------------------
IsMemoryOutOfBounds(e) == Failed(e) /\ e.res.err.kind = "MemoryOutOfBounds"

C14_OutOfBoundsOnlyFromData ==
    \A k \in EventIndices :
        IsCpu(events[k]) /\ IsMemoryOutOfBounds(events[k])
           => /\ Fetched(events[k])
              /\ InstrOf(events[k]).op \in {"BCD", "StoreRegs", "LoadRegs", "Draw"}

\* ------------------------------------------------------------------------
\* C15 A cycle whose word decodes to the unknown variant fails with the
\*     unknown-opcode error, and one whose word decodes to the unknown-ALU
\*     variant fails with the unknown-ALU-opcode error; the error carries
\*     the 16-bit word that was fetched.
\* ------------------------------------------------------------------------
C15_UnknownWordsFail ==
    \A k \in EventIndices :
        LET e == events[k]
        IN /\ Executes(e, "Unknown")
                 => e.res = Err(UnknownOpcode(fetch(e.pre).val))
           /\ Executes(e, "UnknownALU")
                 => e.res = Err(UnknownALUOpcode(fetch(e.pre).val))

\* The word FFFF has been fetched and reported as an unknown opcode
C15_Witness ==
    \E k \in EventIndices :
        /\ Executes(events[k], "Unknown")
        /\ fetch(events[k].pre).val = \hFFFF
        /\ ret = Err(UnknownOpcode(\hFFFF))

\* C16: for each of the 65536 instruction words decode returns exactly one
\* variant, the one the nibble patterns give (00E0, 00EE, 1nnn, 2nnn, 3xnn,
\* 4xnn, 5xy0, 6xnn, 7xnn, 8xy0..8xy7, 8xyE, 9xy0, Annn, Bnnn, Cxnn, Dxyn,
\* Ex9E, ExA1, Fx07, Fx0A, Fx15, Fx18, Fx1E, Fx29, Fx33, Fx55, Fx65), with
\* operands equal to the word's nibbles; the unknown-ALU variant for
\* 8xy8..8xyD and 8xyF; the unknown variant with the raw word otherwise.
Wild == None

Row(pattern, op, operands) == [pattern |-> pattern, op |-> op, operands |-> operands]

AluRow(n3, alu) == [pattern |-> << 8, Wild, Wild, n3 >>, op |-> "ALU", operands |-> {"x", "y"}, alu |-> alu]

PatternTable ==
    { Row(<< 0, 0, 14, 0 >>, "ClearDisplay", {}),
      Row(<< 0, 0, 14, 14 >>, "Return", {}),
      Row(<< 1, Wild, Wild, Wild >>, "Jump", {"nnn"}),
      Row(<< 2, Wild, Wild, Wild >>, "Call", {"nnn"}),
      Row(<< 3, Wild, Wild, Wild >>, "SkipRegEqualImm", {"x", "nn"}),
      Row(<< 4, Wild, Wild, Wild >>, "SkipRegNotEqualImm", {"x", "nn"}),
      Row(<< 5, Wild, Wild, 0 >>, "SkipRegEqualReg", {"x", "y"}),
      Row(<< 6, Wild, Wild, Wild >>, "SetRegImm", {"x", "nn"}),
      Row(<< 7, Wild, Wild, Wild >>, "AddRegImm", {"x", "nn"}),
      AluRow(0, "Set"), AluRow(1, "Or"), AluRow(2, "And"), AluRow(3, "Xor"),
      AluRow(4, "Add"), AluRow(5, "Sub"), AluRow(6, "ShiftRight"),
      AluRow(7, "SubReverse"), AluRow(14, "ShiftLeft"),
      Row(<< 9, Wild, Wild, 0 >>, "SkipRegNotEqualReg", {"x", "y"}),
      Row(<< 10, Wild, Wild, Wild >>, "SetIndexImm", {"nnn"}),
      Row(<< 11, Wild, Wild, Wild >>, "JumpWithOffset", {"nnn"}),
      Row(<< 12, Wild, Wild, Wild >>, "Random", {"x", "nn"}),
      Row(<< 13, Wild, Wild, Wild >>, "Draw", {"x", "y", "n"}),
      Row(<< 14, Wild, 9, 14 >>, "SkipIfPressed", {"x"}),
      Row(<< 14, Wild, 10, 1 >>, "SkipIfNotPressed", {"x"}),
      Row(<< 15, Wild, 0, 7 >>, "ReadDelayTimer", {"x"}),
      Row(<< 15, Wild, 0, 10 >>, "WaitForKey", {"x"}),
      Row(<< 15, Wild, 1, 5 >>, "SetDelayTimer", {"x"}),
      Row(<< 15, Wild, 1, 8 >>, "SetSoundTimer", {"x"}),
      Row(<< 15, Wild, 1, 14 >>, "AddIndexReg", {"x"}),
      Row(<< 15, Wild, 2, 9 >>, "FontChar", {"x"}),
      Row(<< 15, Wild, 3, 3 >>, "BCD", {"x"}),
      Row(<< 15, Wild, 5, 5 >>, "StoreRegs", {"x"}),
      Row(<< 15, Wild, 6, 5 >>, "LoadRegs", {"x"}) }

\* The four hexadecimal digits of a word, most significant first
Digits(word) ==
    << word \div 4096, (word \div 256) % 16, (word \div 16) % 16, word % 16 >>

MatchesRow(word, row) ==
    \A k \in 1..4 : row.pattern[k] \in {Wild, Digits(word)[k]}

\* The value of an operand as the digits of the word spell it
OperandOf(word, name) ==
    CASE name = "x"   -> Digits(word)[2]
      [] name = "y"   -> Digits(word)[3]
      [] name = "n"   -> Digits(word)[4]
      [] name = "nn"  -> 16 * Digits(word)[3] + Digits(word)[4]
      [] name = "nnn" -> 256 * Digits(word)[2] + 16 * Digits(word)[3] + Digits(word)[4]

DecodedAsRow(decoded, word, row) ==
    /\ decoded.op = row.op
    /\ DOMAIN decoded = {"op"} \cup row.operands \cup (DOMAIN row \ {"pattern", "op", "operands"})
    /\ \A name \in row.operands : decoded[name] = OperandOf(word, name)
    /\ "alu" \in DOMAIN row => decoded.alu = row.alu

DecodedAsTable(decoded, word) ==
    LET rows == {row \in PatternTable : MatchesRow(word, row)}
    IN /\ Cardinality(rows) <= 1
       /\ \A row \in rows : DecodedAsRow(decoded, word, row)
       /\ rows = {} /\ Digits(word)[1] = 8 =>
              decoded = [op |-> "UnknownALU", raw |-> word]
       /\ rows = {} /\ Digits(word)[1] # 8 =>
              decoded = [op |-> "Unknown", raw |-> word]

C16_DecodeFollowsPatterns ==
    last.name = "Decode" => ret.ok /\ DecodedAsTable(ret.val, last.opcode)

\* The shift-left word 8xyE has been decoded
C16_Witness ==
    /\ last.name = "Decode"
    /\ last.opcode = \h812E
    /\ ret.val = [op |-> "ALU", x |-> 1, y |-> 2, alu |-> "ShiftLeft"]

\* C17: every ROM of length L <= 3584 loads: load succeeds, the bytes of
\* memory at 0x200 .. 0x200 + L - 1 are the bytes of the ROM, the program
\* counter is 0x200 and the font table of 16 glyphs of 5 bytes is at 0x50.
RomInMemory(c, rom) ==
    \A k \in 1..Len(rom) : MemRead(c.memory, \h200 + k - 1) = rom[k]

FontInMemory(c) ==
    /\ Len(FONT) = 16 * 5
    /\ \A k \in 1..(16 * 5) : MemRead(c.memory, \h50 + k - 1) = FONT[k]

C17_LoadRoundTrip ==
    last.name = "Load" /\ Len(last.rom) <= 3584 =>
        /\ ret = Ok(Val("Unit"))
        /\ RomInMemory(chip8, last.rom)
        /\ chip8.pc = \h200
        /\ FontInMemory(chip8)

\* A ROM of 3584 bytes has been loaded and its last byte is at 0xFFF
C17_Witness ==
    /\ last.name = "Load"
    /\ Len(last.rom) = 3584
    /\ ret.ok
    /\ last.rom[3584] # 0
    /\ MemRead(chip8.memory, \hFFF) = last.rom[3584]

\* C18: load fails, with the ROM-too-large error carrying the size of the
\* ROM and the limit 3584, exactly when the ROM is longer than 3584 bytes.
C18_TooLargeExactlyAbove3584 ==
    last.name = "Load" =>
        /\ ~ret.ok <=> Len(last.rom) > 3584
        /\ ~ret.ok => ret = Err(RomLoadError(Len(last.rom), 3584))

\* A ROM of 3585 bytes has been rejected
C18_Witness ==
    /\ last.name = "Load"
    /\ Len(last.rom) = 3585
    /\ ret = Err(RomLoadError(3585, 3584))

\* C19: each timer tick lowers the delay timer and the sound timer by one,
\* a timer at zero staying at zero and never wrapping to 255; within one
\* update call every due timer tick is applied before the first CPU cycle.
IsTimer(e) == e.kind = "timer"

TimerEventCount(evs) == Cardinality({k \in 1..Len(evs) : IsTimer(evs[k])})

LoweredByOne(before, after) ==
    /\ before > 0 => after = before - 1
    /\ before = 0 => after = 0

TickLowersTimers(e) ==
    /\ LoweredByOne(e.pre.delay_timer, e.post.delay_timer)
    /\ LoweredByOne(e.pre.sound_timer, e.post.sound_timer)
    /\ e.post = [e.pre EXCEPT !.delay_timer = e.post.delay_timer,
                              !.sound_timer = e.post.sound_timer]

TicksBeforeCycles(evs) ==
    \A j, k \in 1..Len(evs) : j < k /\ IsTimer(evs[k]) => IsTimer(evs[j])

C19_TimerTicks ==
    [][ last'.name = "Update" =>
          /\ \A k \in 1..Len(events') : IsTimer(events'[k]) => TickLowersTimers(events'[k])
          /\ TimerEventCount(events') = (timer_dt_accumulator + last'.dt) \div TIMER_TIME_STEP
          /\ timer_dt_accumulator' < TIMER_TIME_STEP
          /\ TicksBeforeCycles(events')
          /\ Chained(chip8, events', chip8') ]_vars

\* One update has applied two ticks before its first CPU cycle: the first
\* lowers both timers from 1 to 0, the second leaves them at 0
C19_Witness ==
    /\ last.name = "Update"
    /\ Len(events) > 2
    /\ IsTimer(events[1]) /\ IsTimer(events[2]) /\ IsCpu(events[3])
    /\ events[1].pre.delay_timer = 1 /\ events[1].pre.sound_timer = 1
    /\ events[2].pre.delay_timer = 0 /\ events[2].post.delay_timer = 0
    /\ events[2].post.sound_timer = 0

\* C20: starting from empty accumulators, an update call whose delta is
\* exactly ten CPU time-steps executes exactly ten CPU cycles when no cycle
\* returns WaitForNextFrame, fails or hits a breakpoint, and leaves the CPU
\* accumulator at zero.
AllCyclesContinue(evs) ==
    \A k \in 1..Len(evs) : IsCpu(evs[k]) => Returned(evs[k], Continue)

CpuCyclesIn(evs) == Cardinality({k \in 1..Len(evs) : IsCpu(evs[k])})

C20_TenStepsTenCycles ==
    [][ /\ cpu_dt_accumulator = 0
        /\ timer_dt_accumulator = 0
        /\ last'.name = "Update"
        /\ last'.dt = f32_mul(10, CPU_TIME_STEP)
        /\ AllCyclesContinue(events')
        => /\ CpuCyclesIn(events') = 10
           /\ cpu_dt_accumulator' = 0 ]_vars

\* C21: with the ROM 00E0 6105 1204 loaded and the runner updated by exactly
\* one CPU time-step per call, after three calls V1 = 0x05 and the program
\* counter is 0x204, the jump's own address, and both stay so after every
\* later update call.
C21_ParkedAfterThreeCalls ==
    ops >= 3 => chip8.v[1] = 5 /\ chip8.pc = \h204 /\ ret = Ok(Val("Ok"))

\* A later call has applied a timer tick and then run the jump again
C21_Witness ==
    /\ ops > 3
    /\ last.name = "Update"
    /\ Len(events) = 2
    /\ IsTimer(events[1])
    /\ Executes(events[2], "Jump")
    /\ events[2].pre.pc = \h204
    /\ chip8.pc = \h204
    /\ chip8.v[1] = 5

\* C22: Draw changes only framebuffer pixels inside the rectangle whose
\* top-left corner is (Vx mod 64, Vy mod 32), at most 8 columns wide and n
\* rows high, cut off at column 63 and row 31: a sprite that extends past
\* the right or bottom edge never alters a pixel by wrapping to column 0 or
\* row 0.
ChangedPixels(e) == (e.pre.display \ e.post.display) \cup (e.post.display \ e.pre.display)

\* The pixels <<row, column>> of the sprite's rectangle that are on the screen
SpriteRectangle(left, top, height) ==
    {<<py, px>> \in (0..31) \X (0..63) :
        /\ top <= py /\ py < top + height
        /\ left <= px /\ px < left + 8}

DrawRectangle(e) ==
    SpriteRectangle(e.pre.v[InstrOf(e).x] % 64, e.pre.v[InstrOf(e).y] % 32, InstrOf(e).n)

C22_DrawStaysInRectangle ==
    \A k \in EventIndices :
        Executes(events[k], "Draw") =>
            ChangedPixels(events[k]) \subseteq DrawRectangle(events[k])

\* An 8x1 sprite of eight set bits drawn at x = 60, y = 0 has touched
\* exactly the columns 60..63
C22_Witness ==
    \E k \in EventIndices :
        /\ Executes(events[k], "Draw")
        /\ InstrOf(events[k]).n = 1
        /\ events[k].pre.v[0] = 60 /\ events[k].pre.v[1] = 0
        /\ MemRead(events[k].pre.memory, events[k].pre.i) = \hFF
        /\ ChangedPixels(events[k]) = {<<0, 60>>, <<0, 61>>, <<0, 62>>, <<0, 63>>}
        /\ chip8 = events[k].post

\* C23: every execution of a Draw instruction returns WaitForNextFrame, for
\* every sprite height n (including 0), every position and every value of
\* the index register.
C23_DrawAlwaysWaits ==
    \A k \in EventIndices :
        Executes(events[k], "Draw") => Returned(events[k], WaitForNextFrame)

\* C23, amended: a Draw returns WaitForNextFrame, for every sprite height n
\* (including 0) and every position, when the sprite rows it reads (the
\* first min(n, 32 - Vy mod 32) bytes from the index register on) all lie
\* at or below 0xFFF; otherwise it fails with the memory-out-of-bounds error
\* carrying the address of the first row past 0xFFF.
RowsRead(e) ==
    IF InstrOf(e).n <= 32 - (e.pre.v[InstrOf(e).y] % 32)
    THEN InstrOf(e).n
    ELSE 32 - (e.pre.v[InstrOf(e).y] % 32)

\* The rows whose sprite byte lies past 0xFFF (the index register is a u16)
RowsOutOfBounds(e) ==
    {row \in 0..(RowsRead(e) - 1) : (e.pre.i + row) % 65536 > \hFFF}

FirstRowOutOfBounds(e) ==
    CHOOSE row \in RowsOutOfBounds(e) : \A other \in RowsOutOfBounds(e) : row <= other

C23_DrawWaitsUnlessOutOfBounds ==
    \A k \in EventIndices :
        Executes(events[k], "Draw") =>
            IF RowsOutOfBounds(events[k]) = {}
            THEN Returned(events[k], WaitForNextFrame)
            ELSE events[k].res =
                    Err(MemoryOutOfBounds((events[k].pre.i + FirstRowOutOfBounds(events[k])) % 65536))

\* A Draw of height 0 has returned WaitForNextFrame with the index
\* register at 0xFFF
C23_Witness ==
    \E k \in EventIndices :
        /\ Executes(events[k], "Draw")
        /\ InstrOf(events[k]).n = 0
        /\ events[k].pre.i = \hFFF
        /\ Returned(events[k], WaitForNextFrame)
        /\ chip8 = events[k].post

\* C24: for every offset and length in [0, 0xFFF] the disassembly query
\* completes without failure, reads no byte beyond address 0xFFF, changes
\* no machine state, and returns the decoded instructions of the window
\* [offset, min(offset + length, 4096)) in address order, the i-th entry
\* being the raw word at address offset + 2i paired with its decoding.
WindowEnd(offset, len) == IF offset + len < 4096 THEN offset + len ELSE 4096

\* The number of two-byte steps from offset that start inside the window
WindowEntries(offset, len) == (WindowEnd(offset, len) - offset + 1) \div 2

WordAt(c, addr) == 256 * MemRead(c.memory, addr) + MemRead(c.memory, addr + 1)

DisasmOfWindow(c, offset, len) ==
    [k \in 1..WindowEntries(offset, len) |->
        << WordAt(c, offset + 2 * (k - 1)), Decode(WordAt(c, offset + 2 * (k - 1))) >>]

C24_DisasmOfEveryWindow ==
    [][ last'.name = "Disasm" =>
          /\ ret'.ok
          /\ ret'.val.kind = "Disasm"
          /\ ret'.val.offset = last'.offset
          /\ ret'.val.instructions = DisasmOfWindow(chip8, last'.offset, last'.len)
          /\ \A k \in 1..WindowEntries(last'.offset, last'.len) :
                 last'.offset + 2 * (k - 1) + 1 <= \hFFF
          /\ chip8' = chip8
          /\ UNCHANGED << cpu_dt_accumulator, timer_dt_accumulator,
                          is_running, breakpoints >> ]_vars

\* C25: the breakpoint set holds each address at most once: setting an
\* address already present leaves the set with one entry for it, clear
\* removes only that address and is a no-op when it is absent, clear-all
\* empties the set, and list returns every member exactly once in ascending
\* order; none of these commands changes the machine state.
IsBreakpointCommand(name) ==
    name \in {"BreakpointSet", "BreakpointClear", "BreakpointClearAll", "BreakpointList"}

StrictlyAscending(seq) == \A j, k \in 1..Len(seq) : j < k => seq[j] < seq[k]

Members(seq) == {seq[k] : k \in 1..Len(seq)}

EntriesFor(bps, addr) == Cardinality({a \in bps : a = addr})

C25_BreakpointSetCommands ==
    [][ IsBreakpointCommand(last'.name) =>
          /\ last'.name = "BreakpointSet" =>
                /\ EntriesFor(breakpoints', last'.addr) = 1
                /\ \A a \in (breakpoints \cup breakpoints') \ {last'.addr} :
                       a \in breakpoints <=> a \in breakpoints'
                /\ last'.addr \in breakpoints => breakpoints' = breakpoints
          /\ last'.name = "BreakpointClear" =>
                /\ EntriesFor(breakpoints', last'.addr) = 0
                /\ \A a \in (breakpoints \cup breakpoints') \ {last'.addr} :
                       a \in breakpoints <=> a \in breakpoints'
                /\ last'.addr \notin breakpoints => breakpoints' = breakpoints
          /\ last'.name = "BreakpointClearAll" => breakpoints' = {}
          /\ last'.name = "BreakpointList" =>
                /\ breakpoints' = breakpoints
                /\ StrictlyAscending(ret'.val.list)
                /\ Members(ret'.val.list) = breakpoints
                /\ Len(ret'.val.list) = Cardinality(breakpoints)
          /\ ret'.ok
          /\ chip8' = chip8
          /\ UNCHANGED << cpu_dt_accumulator, timer_dt_accumulator, is_running >> ]_vars

\* Two breakpoints have been set and listed in ascending order
C25_Witness ==
    /\ last.name = "BreakpointList"
    /\ breakpoints = {\h202, \h204}
    /\ ret.val.list = << \h202, \h204 >>

\* C26: Call pushes the address of the instruction following the call and
\* jumps to nnn; Return pops the most recently pushed address into the
\* program counter, so nested calls return in last-in-first-out order and a
\* Call matched by a Return resumes at the call's address + 2 with the stack
\* exactly as it was before the call; the stack has no depth limit, so Call
\* never fails.
Top(stack) == stack[Len(stack)]

WithoutTop(stack) == [k \in 1..(Len(stack) - 1) |-> stack[k]]

CallPushes(e) ==
    /\ e.res = Ok(Continue)
    /\ Len(e.post.stack) = Len(e.pre.stack) + 1
    /\ Top(e.post.stack) = e.pre.pc + 2
    /\ WithoutTop(e.post.stack) = e.pre.stack
    /\ e.post.pc = InstrOf(e).nnn

ReturnPops(e) ==
    e.pre.stack # << >> =>
        /\ e.res = Ok(Continue)
        /\ e.post.pc = Top(e.pre.stack)
        /\ e.post.stack = WithoutTop(e.pre.stack)

\* The Return at position k of a call's events matches the Call at position
\* j: every cycle between them runs at a greater depth than the Call found
MatchedBy(evs, j, k) ==
    /\ j < k
    /\ Executes(evs[j], "Call")
    /\ Executes(evs[k], "Return")
    /\ Len(evs[k].pre.stack) = Len(evs[j].pre.stack) + 1
    /\ \A m \in (j + 1)..k : IsCpu(evs[m]) /\ Len(evs[m].pre.stack) > Len(evs[j].pre.stack)

C26_CallReturnLastInFirstOut ==
    /\ \A k \in EventIndices : Executes(events[k], "Call") => CallPushes(events[k])
    /\ \A k \in EventIndices : Executes(events[k], "Return") => ReturnPops(events[k])
    /\ \A j, k \in EventIndices :
          MatchedBy(events, j, k) =>
              /\ events[k].post.pc = events[j].pre.pc + 2
              /\ events[k].post.stack = events[j].pre.stack

\* One update has run two nested calls and their two returns: the inner
\* return resumes after the inner call, the outer after the outer call
C26_Witness ==
    /\ Len(events) > 4
    /\ MatchedBy(events, 1, 4)
    /\ MatchedBy(events, 2, 3)
    /\ Len(events[3].pre.stack) = 2
    /\ events[3].post.pc = \h208
    /\ events[4].post.pc = \h202
    /\ events[4].post.stack = << >>

\* C27: every successfully executed instruction other than jump,
\* jump-with-offset, call, return and an uncompleted key wait leaves the
\* program counter at its own address + 2, except that a conditional skip
\* (3xnn, 4xnn, 5xy0, 9xy0, Ex9E, ExA1) leaves it at its own address + 4
\* exactly when its condition holds and + 2 otherwise.
SetsPc(e) == InstrOf(e).op \in {"Jump", "JumpWithOffset", "Call", "Return"}

UncompletedKeyWait(e) == InstrOf(e).op = "WaitForKey" /\ Returned(e, WaitForNextFrame)

SkipConditionHolds(e) ==
    LET o == InstrOf(e)
        v == e.pre.v
    IN CASE o.op = "SkipRegEqualImm"    -> v[o.x] = o.nn
         [] o.op = "SkipRegNotEqualImm" -> v[o.x] # o.nn
         [] o.op = "SkipRegEqualReg"    -> v[o.x] = v[o.y]
         [] o.op = "SkipRegNotEqualReg" -> v[o.x] # v[o.y]
         [] o.op = "SkipIfPressed"      -> e.pre.keypad[v[o.x] % 16]
         [] o.op = "SkipIfNotPressed"   -> ~e.pre.keypad[v[o.x] % 16]
         [] OTHER -> FALSE

C27_FallThroughOrSkip ==
    \A k \in EventIndices :
        /\ Fetched(events[k])
        /\ events[k].res.ok
        /\ ~SetsPc(events[k])
        /\ ~UncompletedKeyWait(events[k])
        => events[k].post.pc =
              events[k].pre.pc + (IF SkipConditionHolds(events[k]) THEN 4 ELSE 2)

\* The skip-if-pressed instruction E09E has found the key of V0 pressed and
\* left the program counter at its own address + 4
C27_Witness ==
    \E k \in EventIndices :
        /\ Executes(events[k], "SkipIfPressed")
        /\ events[k].pre.keypad[events[k].pre.v[0]]
        /\ events[k].pre.pc = \h204
        /\ chip8 = events[k].post
        /\ chip8.pc = \h208

\* C28: ALU Add, Sub and SubReverse store the result wrapped to 8 bits in Vx
\* and then set VF to the carry (Add: 1 on unsigned overflow, else 0) or to
\* the inverted borrow (Sub Vx - Vy and SubReverse Vy - Vx: 1 when no borrow
\* occurred, 0 when it did), for all register values; when x is 0xF the
\* value left in VF is the flag, not the arithmetic result.
ExecutesAlu(e, alu) == Executes(e, "ALU") /\ InstrOf(e).alu = alu

PreX(e) == e.pre.v[InstrOf(e).x]

PreY(e) == e.pre.v[InstrOf(e).y]

\* After the instruction Vx holds value, unless x is 0xF, VF holds flag and
\* no other register has changed
LeavesResultAndFlag(e, value, flag) ==
    /\ e.res = Ok(Continue)
    /\ e.post.v[15] = flag
    /\ InstrOf(e).x # 15 => e.post.v[InstrOf(e).x] = value
    /\ \A r \in 0..14 : r # InstrOf(e).x => e.post.v[r] = e.pre.v[r]

Sum8(a, b) == IF a + b > 255 THEN a + b - 256 ELSE a + b

Carry(a, b) == IF a + b > 255 THEN 1 ELSE 0

Difference8(a, b) == IF a < b THEN a - b + 256 ELSE a - b

NoBorrow(a, b) == IF a < b THEN 0 ELSE 1

C28_ArithmeticFlags ==
    \A k \in EventIndices :
        /\ ExecutesAlu(events[k], "Add") =>
              LeavesResultAndFlag(events[k], Sum8(PreX(events[k]), PreY(events[k])),
                                  Carry(PreX(events[k]), PreY(events[k])))
        /\ ExecutesAlu(events[k], "Sub") =>
              LeavesResultAndFlag(events[k], Difference8(PreX(events[k]), PreY(events[k])),
                                  NoBorrow(PreX(events[k]), PreY(events[k])))
        /\ ExecutesAlu(events[k], "SubReverse") =>
              LeavesResultAndFlag(events[k], Difference8(PreY(events[k]), PreX(events[k])),
                                  NoBorrow(PreY(events[k]), PreX(events[k])))

\* 0x05 - 0x06 has left Vx = 0xFF and VF = 0
C28_Witness ==
    \E k \in EventIndices :
        /\ ExecutesAlu(events[k], "Sub")
        /\ InstrOf(events[k]).x = 0 /\ InstrOf(events[k]).y = 1
        /\ PreX(events[k]) = 5 /\ PreY(events[k]) = 6
        /\ events[k].pre.v[15] = 1
        /\ chip8 = events[k].post
        /\ chip8.v[0] = \hFF /\ chip8.v[15] = 0

\* C29: ALU Or, And and Xor store the bitwise combination of Vx and Vy in
\* Vx and then set VF to 0 whatever VF held before, so VF is never
\* preserved across these three operations, and with x = 0xF the register
\* ends as 0.
\* value combines a and b bit by bit, each bit by the table
\* table[bit of a][bit of b]
IsBitwise(value, a, b, table) ==
    /\ value \in 0..255
    /\ \A k \in 0..7 : Bit(value, k) = table[Bit(a, k)][Bit(b, k)]

OrTable == [p \in {0, 1} |-> [q \in {0, 1} |-> IF p + q > 0 THEN 1 ELSE 0]]

AndTable == [p \in {0, 1} |-> [q \in {0, 1} |-> p * q]]

XorTable == [p \in {0, 1} |-> [q \in {0, 1} |-> IF p = q THEN 0 ELSE 1]]

LeavesBitwise(e, table) ==
    /\ e.res = Ok(Continue)
    /\ e.post.v[15] = 0
    /\ InstrOf(e).x # 15 => IsBitwise(e.post.v[InstrOf(e).x], PreX(e), PreY(e), table)
    /\ \A r \in 0..14 : r # InstrOf(e).x => e.post.v[r] = e.pre.v[r]

C29_LogicResetsFlag ==
    \A k \in EventIndices :
        /\ ExecutesAlu(events[k], "Or") => LeavesBitwise(events[k], OrTable)
        /\ ExecutesAlu(events[k], "And") => LeavesBitwise(events[k], AndTable)
        /\ ExecutesAlu(events[k], "Xor") => LeavesBitwise(events[k], XorTable)

\* An Or into VF itself, with VF = 0xFF before, has left VF = 0
C29_Witness ==
    \E k \in EventIndices :
        /\ ExecutesAlu(events[k], "Or")
        /\ InstrOf(events[k]).x = 15
        /\ events[k].pre.v[15] = \hFF
        /\ PreY(events[k]) = \h80
        /\ chip8 = events[k].post
        /\ chip8.v[15] = 0

\* C30: ALU ShiftRight and ShiftLeft shift the value of Vy (not the old
\* value of Vx) by one bit, store the 8-bit result in Vx, and set VF to the
\* bit shifted out of Vy (bit 0 for right, bit 7 for left).
HalfOf(a) == CHOOSE h \in 0..127 : 2 * h = a \/ 2 * h + 1 = a

LowBit(a) == a - 2 * HalfOf(a)

HighBit(a) == IF a >= 128 THEN 1 ELSE 0

DoubleOf8(a) == 2 * a - 256 * HighBit(a)

ErasedPixels(e) == e.pre.display \ e.post.display

C31_FlagIsErasure ==
    \A k \in EventIndices :
        (Executes(events[k], "Draw") /\ events[k].res.ok) =>
            events[k].post.v[15] = IF ErasedPixels(events[k]) # {} THEN 1 ELSE 0

\* A draw that has set pixels on an empty screen, with VF = 0xFF before,
\* has left VF = 0
C31_Witness ==
    \E k \in EventIndices :
        /\ Executes(events[k], "Draw") /\ events[k].res.ok
        /\ events[k].pre.v[15] = \hFF
        /\ events[k].pre.display = {}
        /\ events[k].post.display # {}
        /\ chip8 = events[k].post
        /\ chip8.v[15] = 0

\* C40: executing the same Draw twice in a row with unchanged Vx, Vy, index
\* register and sprite bytes restores the framebuffer to its state before
\* the first draw, and the second draw sets VF to 1 exactly when the
\* clipped sprite has at least one set bit.
\* The one CPU cycle of a step
OnlyEvent(evs) == evs[1]

IsDrawStep(evs) == Len(evs) = 1 /\ Executes(OnlyEvent(evs), "Draw")

ColsDrawn(e) ==
    IF 8 <= 64 - (e.pre.v[InstrOf(e).x] % 64) THEN 8 ELSE 64 - (e.pre.v[InstrOf(e).x] % 64)

SpriteByte(e, row) == MemRead(e.pre.memory, (e.pre.i + row) % 65536)

\* The set bits <<row, column>> of the sprite that fall on the screen
ClippedSpriteBits(e) ==
    {rc \in (0..(RowsRead(e) - 1)) \X (0..(ColsDrawn(e) - 1)) :
        Bit(SpriteByte(e, rc[1]), 7 - rc[2]) = 1}

\* e2 executes, directly after e1, the same Draw with the same Vx, Vy, index
\* register and sprite bytes
SameDrawInARow(e1, e2) ==
    /\ e2.pre = e1.post
    /\ InstrOf(e2) = InstrOf(e1)
    /\ e2.pre.v[InstrOf(e1).x] = e1.pre.v[InstrOf(e1).x]
    /\ e2.pre.v[InstrOf(e1).y] = e1.pre.v[InstrOf(e1).y]
    /\ e2.pre.i = e1.pre.i
    /\ \A row \in 0..15 : SpriteByte(e2, row) = SpriteByte(e1, row)

DrawnTwice(evs1, evs2) ==
    /\ IsDrawStep(evs1) /\ IsDrawStep(evs2)
    /\ SameDrawInARow(OnlyEvent(evs1), OnlyEvent(evs2))

RedrawRestoresAndFlagsSprite(e1, e2) ==
    /\ e2.post.display = e1.pre.display
    /\ e2.post.v[15] = IF ClippedSpriteBits(e1) # {} THEN 1 ELSE 0

C40_RedrawFlagsSprite ==
    [][DrawnTwice(events, events') =>
          RedrawRestoresAndFlagsSprite(OnlyEvent(events), OnlyEvent(events'))]_vars

\* C40, amended: executing the same Draw twice in a row with unchanged Vx,
\* Vy, index register and sprite bytes restores the framebuffer to its
\* state before the first draw, and a second draw that succeeds sets VF to
\* 1 exactly when the first draw turned at least one pixel on, that is when
\* the clipped sprite has a set bit over a pixel that was unset before the
\* first draw.
RedrawRestoresAndFlagsLit(e1, e2) ==
    /\ e2.post.display = e1.pre.display
    /\ e2.res.ok =>
          e2.post.v[15] = IF e1.post.display \ e1.pre.display # {} THEN 1 ELSE 0

C40_RedrawFlagsLitPixels ==
    [][DrawnTwice(events, events') =>
          RedrawRestoresAndFlagsLit(OnlyEvent(events), OnlyEvent(events'))]_vars

\* The third draw of a sprite with set bits, directly after the same draw
\* at the address before, has put the sprite back on an empty screen and
\* left VF = 0
C40_Witness ==
    /\ IsDrawStep(events)
    /\ OnlyEvent(events).pre.pc = ROM_START_ADDRESS + 12
    /\ WordAt(OnlyEvent(events).pre, ROM_START_ADDRESS + 10) =
          WordAt(OnlyEvent(events).pre, ROM_START_ADDRESS + 12)
    /\ ClippedSpriteBits(OnlyEvent(events)) # {}
    /\ OnlyEvent(events).pre.display = {}
    /\ chip8 = OnlyEvent(events).post
    /\ chip8.display # {}
    /\ chip8.v[15] = 0

\* C32: BCD writes the hundreds, tens and units digits of Vx (each in 0..9,
\* with 100*h + 10*t + u = Vx) to memory at I, I+1 and I+2, leaves the
\* index register unchanged, and computes the three addresses with 12-bit
\* wrap-around (with I = 0xFFF the tens digit goes to address 0x000).
\* h, t, u are the decimal digits of value
IsDecimalOf(h, t, u, value) ==
    /\ h \in 0..9 /\ t \in 0..9 /\ u \in 0..9
    /\ 100 * h + 10 * t + u = value

WrapAt12Bits(addr) == addr % 4096

BcdWritten(e) ==
    /\ e.res = Ok(Continue)
    /\ e.post.i = e.pre.i
    /\ IsDecimalOf(MemRead(e.post.memory, WrapAt12Bits(e.pre.i)),
                   MemRead(e.post.memory, WrapAt12Bits(e.pre.i + 1)),
                   MemRead(e.post.memory, WrapAt12Bits(e.pre.i + 2)),
                   e.pre.v[InstrOf(e).x])

C32_BcdWrapsAt12Bits ==
    \A k \in EventIndices : Executes(events[k], "BCD") => BcdWritten(events[k])

\* C33: StoreRegs x copies V0..Vx inclusive (x+1 registers) to memory
\* starting at I, and LoadRegs x copies x+1 bytes starting at I into
\* V0..Vx; each leaves the index register advanced by x+1, registers above
\* Vx unchanged and memory outside the block unchanged, so StoreRegs
\* followed by LoadRegs from the same start address restores V0..Vx.
\* The addresses I .. I+x of the block
BlockOf(e) == {e.pre.i + r : r \in 0..InstrOf(e).x}

StoredRegs(e) ==
    /\ \A r \in 0..InstrOf(e).x : MemRead(e.post.memory, e.pre.i + r) = e.pre.v[r]
    /\ \A a \in (0..(MEMORY_SIZE - 1)) \ BlockOf(e) :
          MemRead(e.post.memory, a) = MemRead(e.pre.memory, a)
    /\ e.post.v = e.pre.v
    /\ e.post.i = e.pre.i + InstrOf(e).x + 1

LoadedRegs(e) ==
    /\ \A r \in 0..InstrOf(e).x : e.post.v[r] = MemRead(e.pre.memory, e.pre.i + r)
    /\ \A r \in (InstrOf(e).x + 1)..15 : e.post.v[r] = e.pre.v[r]
    /\ e.post.memory = e.pre.memory
    /\ e.post.i = e.pre.i + InstrOf(e).x + 1

\* The value the program first gave register r: the immediate of its 6rnn
\* for V0, V1, V2, and 0 for the registers it never sets
FirstValueOf(c, r) == IF r <= 2 THEN MemRead(c.memory, ROM_START_ADDRESS + 2 * r + 1) ELSE 0

\* e is the LoadRegs of a program whose StoreRegs, from the same start
\* address, succeeded, and V0..V2 have been overwritten in between
LoadsBackStoredBlock(e) ==
    /\ Executes(e, "LoadRegs") /\ e.res.ok
    /\ e.pre.pc = CopyLoadAddress
    /\ WordAt(e.pre, CopyStoreAddress) = WordAt(e.pre, CopyLoadAddress) - \h10
    /\ e.pre.i + InstrOf(e).x < MEMORY_SIZE
    /\ \A r \in 0..2 : e.pre.v[r] = \h55

PressedKeys(c) == {k \in 0..15 : c.keypad[k]}

IsLowest(k, keys) == k \in keys /\ \A other \in keys : k <= other

\* A WaitForKey cycle that starts with no tracked key tracks the lowest
\* pressed key, if there is one
TracksLowestPressed(e) ==
    (e.pre.wait_release_key = None /\ PressedKeys(e.pre) # {}) =>
        IsLowest(e.post.wait_release_key, PressedKeys(e.pre))

\* A WaitForKey cycle that starts with a tracked key completes exactly when
\* that key is released, whatever the other keys are, and stores that key
FollowsTrackedKeyOnly(e) ==
    e.pre.wait_release_key # None =>
        IF e.pre.keypad[e.pre.wait_release_key]
        THEN /\ Returned(e, WaitForNextFrame)
             /\ e.post.wait_release_key = e.pre.wait_release_key
             /\ e.post.v = e.pre.v
        ELSE /\ Returned(e, Continue)
             /\ e.post.v[InstrOf(e).x] = e.pre.wait_release_key

C34_TrackedKeyOnly ==
    [][ /\ events' = << >> => chip8'.wait_release_key = chip8.wait_release_key
        /\ \A k \in 1..Len(events') :
              Executes(events'[k], "WaitForKey") =>
                  /\ TracksLowestPressed(events'[k])
                  /\ FollowsTrackedKeyOnly(events'[k]) ]_vars

\* With keys 1 and 5 both pressed and none tracked, a WaitForKey cycle has
\* tracked key 1
C34_Witness ==
    \E k \in EventIndices :
        /\ Executes(events[k], "WaitForKey")
        /\ events[k].pre.wait_release_key = None
        /\ PressedKeys(events[k].pre) = {1, 5}
        /\ chip8 = events[k].post
        /\ chip8.wait_release_key = 1

\* C35: if a key is pressed and stays pressed until a WaitForKey cycle has
\* observed it, is then released and stays released, and update keeps being
\* called with enough elapsed time for at least one CPU cycle, then the
\* WaitForKey eventually completes with Vx equal to that key, the
\* tracked-key slot empty and the program counter past the instruction.
\* Stated of every single update call: a call that finds the machine at a
\* WaitForKey with an untracked key pressed leaves the lowest pressed key
\* tracked, and a call that finds it at a WaitForKey with the tracked key
\* released completes the instruction in its first CPU cycle.
AtWaitForKey(c) == fetch(c).ok /\ Decode(fetch(c).val).op = "WaitForKey"

CpuEventsOf(evs) == {k \in 1..Len(evs) : IsCpu(evs[k])}

FirstCpuEvent(evs) ==
    evs[CHOOSE k \in CpuEventsOf(evs) : \A other \in CpuEventsOf(evs) : k <= other]

IsUpdateWithACycle(l) == l.name = "Update" /\ l.dt >= CPU_TIME_STEP

CompletesWith(e, key) ==
    /\ Executes(e, "WaitForKey")
    /\ Returned(e, Continue)
    /\ e.post.v[InstrOf(e).x] = key
    /\ e.post.wait_release_key = None
    /\ e.post.pc = e.pre.pc + 2

ObservesPressedKey ==
    (/\ AtWaitForKey(chip8)
     /\ chip8.wait_release_key = None
     /\ PressedKeys(chip8) # {}
     /\ IsUpdateWithACycle(last'))
        => /\ CpuEventsOf(events') # {}
           /\ IsLowest(chip8'.wait_release_key, PressedKeys(chip8))

CompletesOnRelease ==
    (/\ AtWaitForKey(chip8)
     /\ chip8.wait_release_key # None
     /\ ~chip8.keypad[chip8.wait_release_key]
     /\ IsUpdateWithACycle(last'))
        => /\ CpuEventsOf(events') # {}
           /\ CompletesWith(FirstCpuEvent(events'), chip8.wait_release_key)
           /\ chip8'.v[3] = chip8.wait_release_key

C35_WaitCompletesOnRelease == [][ObservesPressedKey /\ CompletesOnRelease]_vars

\* Key 5 was tracked and released with key 1 held down, and an update call
\* of one CPU time step has completed the wait with V3 = 5
C35_Witness ==
    /\ last.name = "Update" /\ last.dt = CPU_TIME_STEP
    /\ Len(events) >= 1
    /\ events[Len(events)].pre.wait_release_key = 5
    /\ events[Len(events)].pre.keypad[1]
    /\ CompletesWith(events[Len(events)], 5)
    /\ chip8 = events[Len(events)].post
    /\ chip8.v[3] = 5 /\ chip8.wait_release_key = None /\ chip8.pc = ROM_START_ADDRESS + 2

\* C36: in every reachable state, including after debug commands that set
\* the program counter and after a ROM is loaded again, a key is tracked as
\* awaiting release only while the instruction at the program counter is a
\* WaitForKey; a wait abandoned by moving the program counter leaves no
\* tracked key behind that would let a later WaitForKey complete without a
\* press of its own.
C36_TrackedOnlyAtWaitForKey ==
    chip8.wait_release_key # None => AtWaitForKey(chip8)

\* C37: a CPU cycle that returns an execution error (unknown opcode, stack
\* underflow, memory out of bounds in fetch, BCD, StoreRegs, LoadRegs or
\* Draw) leaves the machine state (program counter, index register, V
\* registers, memory, stack, framebuffer) exactly as it was before the
\* cycle.
SameMachineState(c1, c2) ==
    /\ c1.pc = c2.pc
    /\ c1.i = c2.i
    /\ c1.v = c2.v
    /\ c1.memory = c2.memory
    /\ c1.stack = c2.stack
    /\ c1.display = c2.display

C37_ErrorLeavesStateUnchanged ==
    \A k \in EventIndices :
        (IsCpu(events[k]) /\ Failed(events[k])) =>
            SameMachineState(events[k].pre, events[k].post)

\* C38: a load that fails with ROM-too-large leaves memory, the program
\* counter and all other machine state exactly as they were before the
\* call.
IsRomLoadError(r) == ~r.ok /\ r.err.kind = "RomLoadError"

C38_FailedLoadChangesNothing ==
    [][(last'.name = "Load" /\ IsRomLoadError(ret')) => chip8' = chip8]_vars

\* C39: every poll that reports a breakpoint hit has executed at least one
\* CPU cycle in that call: when run is issued while the program counter
\* already sits on a breakpoint, the instruction there is executed before
\* any breakpoint check, so resuming from a breakpoint always makes
\* progress.
ReportsHit(l, r) == l.name = "Poll" /\ r = Ok(Val("HitBreakpoint"))

\* The call ran a cycle from machine state c, and the last cycle it ran
\* succeeded and ended on a breakpoint
RanFromAndStoppedOn(evs, c, bps) ==
    /\ CpuEventsOf(evs) # {}
    /\ FirstCpuEvent(evs).pre.pc = c.pc
    /\ FirstCpuEvent(evs).pre.memory = c.memory
    /\ evs[Len(evs)].res.ok
    /\ evs[Len(evs)].post.pc \in bps

C39_HitAfterACycle ==
    [][ReportsHit(last', ret') => RanFromAndStoppedOn(events', chip8, breakpoints)]_vars

\* A poll that started with the program counter on a breakpoint has run
\* the instruction there before it reported a hit
C39_Witness ==
    /\ ReportsHit(last, ret)
    /\ CpuEventsOf(events) # {}
    /\ FirstCpuEvent(events).pre.pc \in breakpoints
    /\ chip8 = events[Len(events)].post
    /\ chip8.pc \in breakpoints

====
